---- MODULE Spec2Model ----
(***************************************************************************)
(* charities-uk: the shared request / retry / cache core (utils/http.ts,   *)
(* core/base-client.ts, core/errors.ts), the CCEW, CCNI and OSCR clients   *)
(* built on it, their constructors, and the helpers and transforms they    *)
(* use (buildQueryString, the search transforms, the status dictionaries). *)
(*                                                                         *)
(* One client instance (cfg) serves calls held in slots 1..NProcs.  A call *)
(* is an async function: it runs synchronously up to its first await (the  *)
(* fetch), is resumed when the exchange settles, may sleep for a backoff,  *)
(* and finally resolves.  Strings are tuples of one-character strings.     *)
(***************************************************************************)
EXTENDS Integers, Sequences, FiniteSets, TLC

VARIABLES cfg, calls, cache, prev, peer, eval

\* cfg: the client; calls: its calls; cache: its cache; prev: ghost history;
\* peer: the cache of a second client; eval: a function of the clients' helpers
\* and transforms, its argument and its result

vars == <<cfg, calls, cache, prev, peer, eval>>

-----------------------------------------------------------------------------
(* Bounds of the model *)

\* the largest retryAttempts a client is configured with
MaxRetries == 2

\* the largest retryAttempts of the client whose cache is followed
ClientRetries == 1

\* the number of call slots: the calls that can be in flight together
NProcs == 2

\* the time-to-live of the cache, in ticks
TtlTicks == 2

\* the largest capacity a cache is configured with
MaxSize == 2

Procs == 1..NProcs

\* the versions of a payload the upstream may serve
Versions == {1, 2}

-----------------------------------------------------------------------------
(* Values *)

NoExc == [name |-> "none", msgFetch |-> FALSE, at |-> -1]

NoHeader == [has |-> FALSE, text |-> <<>>]

Header(t) == [has |-> TRUE, text |-> t]

NoData == [kind |-> "none", reg |-> <<>>, ver |-> 0]

NoResp == [status |-> 0, ok |-> FALSE, statusText |-> "", retryAfter |-> NoHeader,
           data |-> NoData, raw |-> "none"]

Unset == [tag |-> "undefined", n |-> 0]

NaN == [tag |-> "NaN", n |-> 0]

Num(n) == [tag |-> "num", n |-> n]

NoError == [kind |-> "none", status |-> 0, statusText |-> "", retryAfter |-> Unset,
            cause |-> NoExc, body |-> "none"]

NoValue == [kind |-> "none", id |-> <<>>, reg |-> <<>>, ver |-> 0, resp |-> NoResp,
            page |-> 0, fin |-> 0]

NoHttp == [state |-> "none", resp |-> NoResp, err |-> NoError]

\* no function of the transforms is being evaluated
NoEval == [fn |-> "none", arg |-> <<>>, out |-> <<>>, done |-> FALSE]

-----------------------------------------------------------------------------
(* The upstream: what one exchange can answer *)

\* Response.ok of the fetch standard: a status in 200..299
IsOk(status) == status >= 200 /\ status <= 299

StatusText(status) ==
  CASE status = 200 -> "OK"
    [] status = 400 -> "Bad Request"
    [] status = 401 -> "Unauthorized"
    [] status = 403 -> "Forbidden"
    [] status = 404 -> "Not Found"
    [] status = 408 -> "Request Timeout"
    [] status = 429 -> "Too Many Requests"
    [] status = 500 -> "Internal Server Error"
    [] status = 503 -> "Service Unavailable"
    [] OTHER -> ""

\* A wire answer: status line, Retry-After header, declared content type, text.
\* text: "entity" is the JSON of the payload asked for (version ver), "empty"
\* is the JSON of an answer that holds no record ({}, an empty data list), "bad"
\* is text that is no JSON.
Wire(status, ra, json, text, ver) ==
  [kind |-> "resp", status |-> status, retryAfter |-> ra, json |-> json,
   text |-> text, ver |-> ver, exc |-> NoExc]

Thrown(name, msgFetch) ==
  [kind |-> "exc", status |-> 0, retryAfter |-> NoHeader, json |-> FALSE,
   text |-> "none", ver |-> 0, exc |-> [name |-> name, msgFetch |-> msgFetch, at |-> -1]]

ErrorStatuses == {400, 401, 403, 404, 408, 429, 500, 503}

\* Everything an exchange can do: answer, or reject (the abort of the timeout
\* is an AbortError, a connection failure a TypeError, anything else an Error)
Outcomes ==
  {Wire(200, NoHeader, TRUE, "entity", v) : v \in Versions}
  \cup {Wire(200, NoHeader, TRUE, "empty", 0), Wire(200, NoHeader, TRUE, "bad", 0),
        Wire(200, NoHeader, FALSE, "entity", 1)}
  \cup {Wire(s, NoHeader, TRUE, "empty", 0) : s \in ErrorStatuses}
  \cup {Wire(429, Header(<<"6", "0">>), TRUE, "empty", 0),
        Wire(429, Header(<<"x">>), TRUE, "empty", 0)}
  \cup {Thrown("AbortError", FALSE), Thrown("TypeError", FALSE),
        Thrown("Error", TRUE), Thrown("Error", FALSE)}

\* The outcomes the client specification draws from: one of each class
ClientOutcomes ==
  {Wire(200, NoHeader, TRUE, "entity", v) : v \in Versions}
  \cup {Wire(200, NoHeader, TRUE, "empty", 0)}
  \cup {Wire(s, NoHeader, TRUE, "empty", 0) : s \in {401, 404, 429, 500}}
  \cup {Thrown("TypeError", FALSE)}

\* Ghost: what is kept of an attempt's outcome, one tag per exchange of a call
Tag(out) == [status |-> out.status, text |-> out.text, name |-> out.exc.name,
             msgFetch |-> out.exc.msgFetch]

-----------------------------------------------------------------------------
(* utils/http.ts *)

\* DEFAULT_RETRY_CONFIG.maxRetries
DefaultMaxRetries == 3

\* DEFAULT_RETRY_CONFIG.delayMs
DefaultDelayMs == 1000

\* DEFAULT_RETRY_CONFIG.maxDelayMs
DefaultMaxDelayMs == 10000

DEFAULT_RETRY_CONFIG ==
  [maxRetries |-> DefaultMaxRetries, delayMs |-> DefaultDelayMs, exponentialBackoff |-> TRUE,
   maxDelayMs |-> Num(DefaultMaxDelayMs)]

\* core/errors.ts: new NetworkError(cause)
NetworkError(cause) == [NoError EXCEPT !.kind = "NetworkError", !.cause = cause]

\* Faulty variant: the server-error test misses 500 itself
isRetryableAbove500(status) ==
  status > 500 \/ status = 408 \/ status = 429 \/ status = 0

\* Faulty variant: every client error is retried too
isRetryableFrom400(status) ==
  status >= 400 \/ status = 0

isRetryable(status) ==
  status >= 500 \/ status = 408 \/ status = 429 \/ status = 0

\* Faulty variant: the abort of the timeout is not among the connectivity errors
isNetworkErrorNoAbort(e) ==
  e.name = "TypeError" \/ e.msgFetch

isNetworkError(e) ==
  e.name = "AbortError" \/ e.name = "TypeError" \/ e.msgFetch

\* data of the response: JSON.parse when the content type says JSON and the
\* text parses, the raw text otherwise
ParseData(out, reg) ==
  IF out.json /\ out.text = "entity" THEN [kind |-> "entity", reg |-> reg, ver |-> out.ver]
  ELSE IF out.json /\ out.text = "empty" THEN [kind |-> "empty", reg |-> <<>>, ver |-> 0]
  ELSE [kind |-> "string", reg |-> <<>>, ver |-> 0]

HttpResponse(out, reg) ==
  [status |-> out.status, ok |-> IsOk(out.status), statusText |-> StatusText(out.status),
   retryAfter |-> out.retryAfter, data |-> ParseData(out, reg), raw |-> out.text]

\* Faulty variant: the loop runs while attempt < maxRetries
HttpAttemptShort(c) ==
  IF c.attempt < c.maxRetries
  THEN [c EXCEPT !.pc = "inflight", !.fetches = @ + 1]
  ELSE [c EXCEPT !.pc = "resolved",
                 !.http = [state |-> "threw", resp |-> NoResp,
                           err |-> NetworkError(IF c.lastError = NoExc
                                                THEN [name |-> "Error", msgFetch |-> FALSE,
                                                      at |-> -1]
                                                ELSE c.lastError)]]

\* The loop head and the fetch of one attempt: for (...; attempt <= maxRetries; ...)
HttpAttempt(c) ==
  IF c.attempt <= c.maxRetries
  THEN [c EXCEPT !.pc = "inflight", !.fetches = @ + 1]
  ELSE [c EXCEPT !.pc = "resolved",
                 !.http = [state |-> "threw", resp |-> NoResp,
                           err |-> NetworkError(IF c.lastError = NoExc
                                                THEN [name |-> "Error", msgFetch |-> FALSE,
                                                      at |-> -1]
                                                ELSE c.lastError)]]

\* httpRequest up to its first await
HttpStart(c, maxRetries) ==
  HttpAttempt([c EXCEPT !.maxRetries = maxRetries, !.attempt = 0, !.lastError = NoExc,
                        !.httpCalls = @ + 1])

\* Faulty variant: the first error of the call is kept (lastError ??= error)
CaughtFirst(lastError, e) == IF lastError = NoExc THEN e ELSE lastError

\* lastError = error instanceof Error ? error : new Error(String(error)); the
\* exchange rejects with Error instances only
Caught(lastError, e) == e

\* Faulty variant: a failure status left when the attempts are used up is raised, not
\* returned
HttpSettleRaising(c, out) ==
  LET g == [c EXCEPT !.tags = Append(@, Tag(out))]
  IN IF out.kind = "resp"
     THEN IF ~IsOk(out.status) /\ isRetryable(out.status) /\ c.attempt < c.maxRetries
          THEN [g EXCEPT !.pc = "sleep"]
          ELSE IF ~IsOk(out.status) /\ isRetryable(out.status)
          THEN [g EXCEPT !.pc = "resolved",
                         !.http = [state |-> "threw", resp |-> NoResp,
                                   err |-> NetworkError(c.lastError)]]
          ELSE [g EXCEPT !.pc = "resolved",
                         !.http = [state |-> "returned", resp |-> HttpResponse(out, c.key),
                                   err |-> NoError]]
     ELSE LET e == Caught(c.lastError, [out.exc EXCEPT !.at = c.attempt])
          IN IF isNetworkError(e) /\ c.attempt < c.maxRetries
             THEN [g EXCEPT !.pc = "sleep", !.lastError = e]
             ELSE [g EXCEPT !.pc = "resolved", !.lastError = e,
                            !.http = [state |-> "threw", resp |-> NoResp,
                                      err |-> NetworkError(e)]]

\* The body of the loop after the exchange settled with out
HttpSettle(c, out) ==
  LET g == [c EXCEPT !.tags = Append(@, Tag(out))]
  IN IF out.kind = "resp"
     THEN IF ~IsOk(out.status) /\ isRetryable(out.status) /\ c.attempt < c.maxRetries
          THEN [g EXCEPT !.pc = "sleep"]
          ELSE [g EXCEPT !.pc = "resolved",
                         !.http = [state |-> "returned", resp |-> HttpResponse(out, c.key),
                                   err |-> NoError]]
     ELSE LET e == Caught(c.lastError, [out.exc EXCEPT !.at = c.attempt])
          IN IF isNetworkError(e) /\ c.attempt < c.maxRetries
             THEN [g EXCEPT !.pc = "sleep", !.lastError = e]
             ELSE [g EXCEPT !.pc = "resolved", !.lastError = e,
                            !.http = [state |-> "threw", resp |-> NoResp,
                                      err |-> NetworkError(e)]]

\* Faulty variant: the delay doubles without a cap
calculateDelayUncapped(attempt, config) ==
  IF config.exponentialBackoff THEN config.delayMs * 2^attempt ELSE config.delayMs

\* calculateDelay(attempt, config): Math.min(baseDelay * Math.pow(2, attempt),
\* config.maxDelayMs ?? 10000) with exponential backoff, baseDelay without
calculateDelay(attempt, config) ==
  LET delay == config.delayMs * 2^attempt
      maxDelayMs == IF config.maxDelayMs = Unset THEN DefaultMaxDelayMs
                    ELSE config.maxDelayMs.n
  IN IF config.exponentialBackoff
     THEN (IF delay < maxDelayMs THEN delay ELSE maxDelayMs)
     ELSE config.delayMs

\* The backoff sleep is over: continue with the next attempt
HttpWake(c) == HttpAttempt([c EXCEPT !.attempt = @ + 1])

-----------------------------------------------------------------------------
(* core/errors.ts *)

IsDigit(ch) == ch \in {"0", "1", "2", "3", "4", "5", "6", "7", "8", "9"}

DigitVal(ch) ==
  CASE ch = "0" -> 0 [] ch = "1" -> 1 [] ch = "2" -> 2 [] ch = "3" -> 3 [] ch = "4" -> 4
    [] ch = "5" -> 5 [] ch = "6" -> 6 [] ch = "7" -> 7 [] ch = "8" -> 8 [] ch = "9" -> 9

RECURSIVE DigitsPrefix(_, _, _)
\* the value of the longest run of digits at the head of s, or -1 when s has none
DigitsPrefix(s, acc, any) ==
  IF s # <<>> /\ IsDigit(Head(s))
  THEN DigitsPrefix(Tail(s), acc * 10 + DigitVal(Head(s)), TRUE)
  ELSE IF any THEN acc ELSE -1

RECURSIVE SkipSpaces(_)
SkipSpaces(s) == IF s # <<>> /\ Head(s) = " " THEN SkipSpaces(Tail(s)) ELSE s

\* parseInt(s, 10): leading white space, an optional sign, the digits; NaN without digits
parseInt(s) ==
  LET t == SkipSpaces(s)
      neg == t # <<>> /\ Head(t) = "-"
      u == IF t # <<>> /\ Head(t) \in {"-", "+"} THEN Tail(t) ELSE t
      v == DigitsPrefix(u, 0, FALSE)
  IN IF v = -1 THEN NaN ELSE Num(IF neg THEN -v ELSE v)

\* JavaScript truthiness of a number: 0 and NaN are falsy
Truthy(x) == x.tag = "num" /\ x.n # 0

\* new RateLimitError(response): the retryAfter it ends with
RateLimitRetryAfter(h) ==
  LET parsed == IF h.has /\ h.text # <<>> THEN parseInt(h.text) ELSE Unset
  IN IF Truthy(parsed) /\ parsed.tag = "NaN" THEN Unset ELSE parsed

RateLimitError(resp) ==
  [NoError EXCEPT !.kind = "RateLimitError", !.retryAfter = RateLimitRetryAfter(resp.retryAfter)]

AuthenticationError(resp) ==
  [NoError EXCEPT !.kind = "AuthenticationError", !.status = resp.status,
                  !.statusText = resp.statusText]

CharityNotFoundError == [NoError EXCEPT !.kind = "CharityNotFoundError"]

ApiError(resp, body) ==
  [NoError EXCEPT !.kind = "ApiError", !.status = resp.status,
                  !.statusText = resp.statusText, !.body = body]

-----------------------------------------------------------------------------
(* core/base-client.ts *)

\* Faulty variant: the 404 case is missing
handleErrorResponseNo404(resp) ==
  CASE resp.status \in {401, 403} -> AuthenticationError(resp)
    [] resp.status = 429 -> RateLimitError(resp)
    [] OTHER -> ApiError(resp, resp.raw)

\* Faulty variant: only 401 is an authentication failure
handleErrorResponseNo403(resp) ==
  CASE resp.status = 401 -> AuthenticationError(resp)
    [] resp.status = 404 -> CharityNotFoundError
    [] resp.status = 429 -> RateLimitError(resp)
    [] OTHER -> ApiError(resp, resp.raw)

handleErrorResponse(resp) ==
  CASE resp.status \in {401, 403} -> AuthenticationError(resp)
    [] resp.status = 404 -> CharityNotFoundError
    [] resp.status = 429 -> RateLimitError(resp)
    [] OTHER -> ApiError(resp, resp.raw)

\* Faulty variant: the retry tuning does not reach the transport, which uses its default
requestDefaultRetry(c) == HttpStart(c, DefaultMaxRetries)

\* BaseClient.request up to its await: httpRequest with retry.maxRetries = retryAttempts
request(c) == HttpStart(c, cfg.retryAttempts)

\* BaseClient.request once httpRequest has resolved: the error it raises, or none
RequestError(http) ==
  IF http.state = "threw" THEN http.err
  ELSE IF ~http.resp.ok THEN handleErrorResponse(http.resp)
  ELSE NoError

\* getCacheKey(method, params): `${regulator}:${method}:${params}`
getCacheKey(regulator, method, params) == <<regulator, method, params>>

\* lru-cache: an entry is stale once more than ttl has passed since it was set
IsStale(e) == e.age > TtlTicks

Holds(c, key) == \E i \in 1..Len(c) : c[i].key = key

Without(c, key) == SelectSeq(c, LAMBDA e : e.key # key)

Entry(c, key) == c[CHOOSE i \in 1..Len(c) : c[i].key = key]

\* getCached: cache?.get(key); undefined without a cache, for a missing key and
\* for a stale entry
getCached(c, key) ==
  IF ~cfg.cacheEnabled \/ ~Holds(c, key) \/ IsStale(Entry(c, key))
  THEN [hit |-> FALSE, val |-> NoValue]
  ELSE [hit |-> TRUE, val |-> Entry(c, key).val]

\* Faulty variant: a read is no use, the entries stay in the order they were written
CacheAfterGetUnordered(c, key) ==
  IF ~cfg.cacheEnabled \/ ~Holds(c, key) THEN c
  ELSE IF IsStale(Entry(c, key)) THEN Without(c, key)
  ELSE c

\* Faulty variant: a read renews the entry's time-to-live (updateAgeOnGet)
CacheAfterGetRenewing(c, key) ==
  IF ~cfg.cacheEnabled \/ ~Holds(c, key) THEN c
  ELSE IF IsStale(Entry(c, key)) THEN Without(c, key)
  ELSE Append(Without(c, key), [Entry(c, key) EXCEPT !.age = 0])

\* the cache after getCached: a stale entry is dropped, a fresh one becomes the
\* most recently used (the last of the sequence)
CacheAfterGet(c, key) ==
  IF ~cfg.cacheEnabled \/ ~Holds(c, key) THEN c
  ELSE IF IsStale(Entry(c, key)) THEN Without(c, key)
  ELSE Append(Without(c, key), Entry(c, key))

\* Faulty variant: nothing is stored
setCacheDropped(c, key, val) == c

\* Faulty variant: the store ignores that the cache is disabled
setCacheAlways(c, key, val) ==
  LET e == [key |-> key, val |-> val, age |-> 0]
  IN IF Holds(c, key) THEN Append(Without(c, key), e)
     ELSE IF Len(c) >= cfg.maxSize THEN Append(Tail(c), e)
     ELSE Append(c, e)

\* setCache: cache?.set(key, value); a new key beyond the capacity evicts the
\* least recently used entry (the first of the sequence)
setCache(c, key, val) ==
  IF ~cfg.cacheEnabled THEN c
  ELSE LET e == [key |-> key, val |-> val, age |-> 0]
       IN IF Holds(c, key) THEN Append(Without(c, key), e)
          ELSE IF Len(c) >= cfg.maxSize THEN Append(Tail(c), e)
          ELSE Append(c, e)

\* clearCache: cache?.clear()
clearCache(c) == <<>>

-----------------------------------------------------------------------------
(* clients/ccew/client.ts, clients/ccni/client.ts and their transforms *)

Upper(ch) ==
  CASE ch = "n" -> "N" [] ch = "i" -> "I" [] ch = "c" -> "C" [] ch = "s" -> "S"
    [] OTHER -> ch

\* id.toUpperCase()
toUpperCase(id) == [i \in 1..Len(id) |-> Upper(id[i])]

\* id.replace(/\D/g, '')
StripNonDigits(id) == SelectSeq(id, IsDigit)

\* id.replace(/^NIC/i, '')
StripNIC(id) ==
  IF Len(id) >= 3 /\ <<Upper(id[1]), Upper(id[2]), Upper(id[3])>> = <<"N", "I", "C">>
  THEN SubSeq(id, 4, Len(id))
  ELSE id

\* Faulty variant: the prefix is matched in upper case only and the id kept as given
EnsureSCAsGiven(id) ==
  IF Len(id) >= 2 /\ SubSeq(id, 1, 2) = <<"S", "C">> THEN id ELSE <<"S", "C">> \o id

\* id.toUpperCase().startsWith('SC') ? id.toUpperCase() : `SC${id}`
EnsureSC(id) ==
  IF Len(id) >= 2 /\ SubSeq(toUpperCase(id), 1, 2) = <<"S", "C">>
  THEN toUpperCase(id)
  ELSE <<"S", "C">> \o id

\* Faulty variant: the identifier is used as the caller gave it
NormalizeIdAsGiven(regulator, id) == id

NormalizeId(regulator, id) ==
  CASE regulator = "CCEW" -> StripNonDigits(id)
    [] regulator = "CCNI" -> StripNIC(id)
    [] OTHER -> EnsureSC(id)

\* the getCharity that consults and fills the cache: OSCRClient.getCharity
\* calls neither getCached nor setCache
UsesCache(regulator) == regulator \in {"CCEW", "CCNI"}

Null == [NoValue EXCEPT !.kind = "null"]

\* transformDetails: id and registrationNumber come from the payload
transformDetails(regulator, data) ==
  [NoValue EXCEPT !.kind = "charity",
                  !.id = IF regulator = "CCNI" THEN <<"N", "I", "C">> \o data.reg
                         ELSE data.reg,
                  !.reg = data.reg, !.ver = data.ver]

\* Faulty variant: only !response.data is tested, the registration number is not
IsPlaceholderNoData(data) == data.kind = "none"

\* !response.data || !response.data.registeredCharityNumber (regCharityNumber)
IsPlaceholder(data) == data.kind # "entity" \/ data.reg = <<>>

\* Faulty variant: the CCNI catch tests for the wrong class
CollapsesToNullWrongClass(regulator, err) ==
  IF regulator = "CCNI" THEN err.kind = "ApiError"
  ELSE err.kind # "AuthenticationError"

\* Faulty variant: the CCEW and OSCR catch rethrows nothing
CollapsesToNullAll(regulator, err) ==
  IF regulator = "CCNI" THEN err.kind = "CharityNotFoundError"
  ELSE TRUE

\* which errors getCharity's catch turns into null
CollapsesToNull(regulator, err) ==
  IF regulator = "CCNI" THEN err.kind = "CharityNotFoundError"
  ELSE err.kind # "AuthenticationError"

Returned(c, v) == [c EXCEPT !.pc = "done", !.outcome = "returned", !.value = v]

Raised(c, e) == [c EXCEPT !.pc = "done", !.outcome = "raised", !.error = e]

\* transformSearchResponse reads raw.charities / raw.pageItems: a TypeError on
\* a body that is no search page
SearchResume(c) ==
  LET err == RequestError(c.http)
  IN IF err # NoError THEN Raised(c, err)
     ELSE IF c.http.resp.data.kind = "entity"
          THEN Returned(c, [NoValue EXCEPT !.kind = "search", !.ver = c.http.resp.data.ver])
          ELSE Raised(c, [NoError EXCEPT !.kind = "TypeError"])

\* BaseClient.get: the response, or the error of the taxonomy
GetResume(c) ==
  LET err == RequestError(c.http)
  IN IF err # NoError THEN Raised(c, err)
     ELSE Returned(c, [NoValue EXCEPT !.kind = "response", !.resp = c.http.resp])

\* getCharity after this.get settled: the call record
GetCharityResume(c) ==
  LET err == RequestError(c.http)
  IN IF err = NoError
     THEN IF IsPlaceholder(c.http.resp.data) THEN Returned(c, Null)
          ELSE Returned(c, transformDetails(cfg.regulator, c.http.resp.data))
     ELSE IF CollapsesToNull(cfg.regulator, err) THEN Returned(c, Null)
          ELSE Raised(c, err)

\* Faulty variant: the catch stores null before it rethrows
GetCharityCacheOnRaise(c, d) ==
  IF UsesCache(cfg.regulator)
  THEN setCache(cache, getCacheKey(cfg.regulator, "getCharity", c.key),
                IF d.outcome = "returned" THEN d.value ELSE Null)
  ELSE cache

\* getCharity after this.get settled: the cache (setCache on every return)
GetCharityCache(c, d) ==
  IF d.outcome = "returned" /\ UsesCache(cfg.regulator)
  THEN setCache(cache, getCacheKey(cfg.regulator, "getCharity", c.key), d.value)
  ELSE cache

-----------------------------------------------------------------------------
(* The other operations of the clients *)

\* the CCEW operations that read a list from an endpoint of their own
ListOps == {"getTrustees", "getFinancialHistory", "getOtherRegulators"}

\* the OSCR operations built on getCharity and the annual-return endpoint
OscrOps == {"getAnnualReturns", "getCharityWithFinancials"}

EmptyList == [NoValue EXCEPT !.kind = "list"]

\* a list of the items of a payload
List(ver) == [NoValue EXCEPT !.kind = "list", !.ver = ver]

\* a search page without items
EmptyPage(page) == [NoValue EXCEPT !.kind = "search", !.page = page]

\* Faulty variant: the catch rethrows what the Request Core raised
ListResumeRaising(c) ==
  LET err == RequestError(c.http)
  IN IF err # NoError THEN Raised(c, err)
     ELSE IF c.http.resp.data.kind = "entity"
     THEN Returned(c, List(c.http.resp.data.ver))
     ELSE Returned(c, EmptyList)

\* CCEW getTrustees / getFinancialHistory / getOtherRegulators after this.get
\* settled: the list of the body (response.data.trustees ?? []), [] in the catch
ListResume(c) ==
  LET err == RequestError(c.http)
  IN IF err = NoError /\ c.http.resp.data.kind = "entity"
     THEN Returned(c, List(c.http.resp.data.ver))
     ELSE Returned(c, EmptyList)

\* Faulty variant: the warning is not written
logNotImplementedSilent(c, method) == c

\* logNotImplemented: console.warn(`[${this.regulator}] ${method} is not supported ...`)
logNotImplemented(c, method) == [c EXCEPT !.warns = Append(@, <<cfg.regulator, method>>)]

\* CCNIClient.getOtherRegulators
CcniOtherRegulators(c) == Returned(logNotImplemented(c, "getOtherRegulators"), EmptyList)

\* OSCRClient.searchByName, getTrustees, getOtherRegulators: a warning and an
\* empty result, the page kept
OscrUnsupported(c) ==
  Returned(logNotImplemented(c, c.op),
           IF c.op = "searchByName" THEN EmptyPage(c.page) ELSE EmptyList)

\* the next request of an operation made of several (the tags are those of
\* the request under way)
NextRequest(c, step) ==
  request([c EXCEPT !.step = step, !.http = NoHttp, !.tags = <<>>])

\* getAnnualReturnsById: response.data ?? [], [] in the catch
AnnualReturnsById(http) ==
  IF RequestError(http) # NoError THEN [kind |-> "empty", ver |-> 0]
  ELSE [kind |-> http.resp.data.kind, ver |-> http.resp.data.ver]

\* enrichCharityWithAnnualReturn
enrichCharityWithAnnualReturn(charity, ver) == [charity EXCEPT !.fin = ver]

\* Faulty variant: without annual returns nothing is returned
UnenrichedNull(c) == Returned(c, Null)

\* getCharityWithFinancials: return charity
Unenriched(c) == Returned(c, c.first)

\* getAnnualReturns and getCharityWithFinancials after a request settled
OscrResume(c) ==
  LET g == GetCharityResume(c)
      rs == AnnualReturnsById(c.http)
      isFin == c.op = "getCharityWithFinancials"
      typeError == Raised(c, [NoError EXCEPT !.kind = "TypeError"])
  IN CASE c.step = "charity" ->
            IF g.outcome = "raised" THEN g
            ELSE IF g.value = Null THEN Returned(c, IF isFin THEN Null ELSE EmptyList)
            ELSE NextRequest([c EXCEPT !.first = g.value], IF isFin THEN "again" ELSE "byId")
       [] c.step = "again" ->
            IF g.outcome = "raised" THEN g
            ELSE IF g.value = Null THEN Unenriched(c)
            ELSE NextRequest(c, "byId")
       [] c.step = "byId" ->
            IF rs.kind = "string" THEN typeError
            ELSE IF rs.kind = "entity"
                 THEN IF isFin THEN NextRequest(c, "latest") ELSE Returned(c, List(rs.ver))
                 ELSE IF isFin THEN Unenriched(c) ELSE Returned(c, EmptyList)
       [] OTHER ->
            IF rs.kind = "string" THEN typeError
            ELSE IF rs.kind = "entity"
                 THEN Returned(c, enrichCharityWithAnnualReturn(c.first, rs.ver))
                 ELSE Unenriched(c)

\* httpRequest called directly: the response whatever its status, or the
\* NetworkError
HttpResume(c) ==
  IF c.http.state = "threw" THEN Raised(c, c.http.err)
  ELSE Returned(c, [NoValue EXCEPT !.kind = "response", !.resp = c.http.resp])

Resume(c) ==
  CASE c.op = "getCharity" -> GetCharityResume(c)
    [] c.op = "httpRequest" -> HttpResume(c)
    [] c.op = "search" -> SearchResume(c)
    [] c.op \in ListOps -> ListResume(c)
    [] c.op \in OscrOps -> OscrResume(c)
    [] OTHER -> GetResume(c)

-----------------------------------------------------------------------------
(* The state machine *)

\* Ghost: what a call found at its start about the last getCharity that went
\* to the upstream and returned
NoSeen ==
  [repeat |-> FALSE, fresh |-> FALSE, cleared |-> FALSE, value |-> NoValue,
   absent |-> FALSE, fetches |-> 0]

IdleCall ==
  [pc |-> "idle", op |-> "none", id |-> <<>>, key |-> <<>>, maxRetries |-> 0,
   attempt |-> 0, fetches |-> 0, httpCalls |-> 0, lastError |-> NoExc, http |-> NoHttp,
   tags |-> <<>>,
   outcome |-> "none", value |-> NoValue, error |-> NoError, seen |-> NoSeen,
   step |-> "none", first |-> NoValue, page |-> 0, warns |-> <<>>, over |-> FALSE,
   retry |-> DEFAULT_RETRY_CONFIG, delays |-> <<>>, waited |-> 0, cut |-> FALSE]

\* Ghost: the last getCharity that went to the upstream and returned: its key
\* and result, the ticks since, whether clearCache ran since, whether its only
\* answer said "no such record"; and, where the uses of the cache are traced,
\* the keys in the order of their last use and whether the result was read
\* from the cache since; and, where the clearing of the cache is traced, the
\* keys whose entry was stored by a call that was in flight when clearCache ran
NoPrev ==
  [valid |-> FALSE, key |-> <<>>, value |-> NoValue, age |-> 0, cleared |-> FALSE,
   absent |-> FALSE, fetches |-> 0, uses |-> <<>>, read |-> FALSE, stale |-> {}]

\* Ghost: the keys read from or written to the cache since it was last
\* cleared, in the order of their last use (the most recent last)
Touch(uses, key) == Append(SelectSeq(uses, LAMBDA k : k # key), key)

\* an answer that says "no such record": a 404, or a success with an empty body
IsAbsent(tag) == tag.status = 404 \/ (tag.status = 200 /\ tag.text = "empty")

PrevAfter(d) ==
  IF d.op = "getCharity" /\ d.pc = "done" /\ d.outcome = "returned"
  THEN [valid |-> TRUE, key |-> d.key, value |-> d.value, age |-> 0, cleared |-> FALSE,
        absent |-> \A i \in 1..Len(d.tags) : IsAbsent(d.tags[i]), fetches |-> d.fetches,
        uses |-> prev.uses, read |-> FALSE, stale |-> prev.stale]
  ELSE prev

Seen(reg) ==
  IF prev.valid /\ prev.key = reg
  THEN [repeat |-> TRUE, fresh |-> ~prev.cleared /\ prev.age <= TtlTicks,
        cleared |-> prev.cleared, value |-> prev.value, absent |-> prev.absent,
        fetches |-> prev.fetches]
  ELSE NoSeen

\* the identifiers callers pass
Ids == {<<"1">>, <<"n", "I", "C", "1">>, <<"2">>}

Configs ==
  [regulator : {"CCEW", "CCNI"}, cacheEnabled : BOOLEAN, retryAttempts : 0..MaxRetries,
   maxSize : 1..MaxSize]

\* after construction: nothing in flight, an empty cache
InitWith(C) ==
  /\ cfg \in C
  /\ calls = [p \in Procs |-> IdleCall]
  /\ cache = <<>>
  /\ prev = NoPrev
  /\ peer = <<>>
  /\ eval = NoEval

Init == InitWith({c \in Configs : c.maxSize = MaxSize /\ c.retryAttempts <= ClientRetries})

InitCore == InitWith(Configs)

\* a slot is free for the next call
MayStart(p) == calls[p].pc \in {"idle", "done"}

\* the exchange of call p settles with an outcome of S, and the call runs on to
\* its next await or to its end
Settle(p, S) ==
  /\ calls[p].pc = "inflight"
  /\ \E out \in S :
       LET h == HttpSettle(calls[p], out)
           d == IF h.pc = "resolved" THEN Resume(h) ELSE h
       IN /\ calls' = [calls EXCEPT ![p] = d]
          /\ cache' = IF h.pc = "resolved" /\ h.op = "getCharity"
                      THEN GetCharityCache(h, d) ELSE cache
          /\ prev' = PrevAfter(d)
  /\ UNCHANGED <<cfg, peer, eval>>

\* the backoff sleep of call p ends
Wake(p) ==
  /\ calls[p].pc = "sleep"
  /\ calls' = [calls EXCEPT ![p] = HttpWake(calls[p])]
  /\ UNCHANGED <<cfg, cache, prev, peer, eval>>

\* client.search(query) / this.get(path): straight to the transport
StartRequest(p, op) ==
  /\ MayStart(p)
  /\ calls' = [calls EXCEPT ![p] = request([IdleCall EXCEPT !.op = op])]
  /\ UNCHANGED <<cfg, cache, prev, peer, eval>>

\* Ghost: a getCharity for the same key is in flight in another slot
InFlight(p, reg) ==
  \E q \in Procs \ {p} :
    calls[q].op = "getCharity" /\ calls[q].key = reg /\ calls[q].pc \in {"inflight", "sleep"}

\* Faulty variant: a lookup that finds the same lookup in flight waits for its result
\* instead of asking the upstream itself
StartGetCharityCoalesced(p, id) ==
  /\ MayStart(p)
  /\ LET reg == NormalizeId(cfg.regulator, id)
         key == getCacheKey(cfg.regulator, "getCharity", reg)
         got == IF UsesCache(cfg.regulator) THEN getCached(cache, key)
                ELSE [hit |-> FALSE, val |-> NoValue]
         c == [IdleCall EXCEPT !.op = "getCharity", !.id = id, !.key = reg,
                               !.seen = Seen(reg), !.over = ~got.hit /\ InFlight(p, reg)]
     IN /\ cache' = IF UsesCache(cfg.regulator) THEN CacheAfterGet(cache, key) ELSE cache
        /\ calls' = [calls EXCEPT ![p] =
                       IF got.hit THEN Returned(c, got.val)
                       ELSE IF InFlight(p, reg) THEN [c EXCEPT !.pc = "joined"]
                       ELSE request(c)]
  /\ UNCHANGED <<cfg, prev, peer, eval>>

\* client.getCharity(id) up to its first await: the cache, then the transport
StartGetCharity(p, id) ==
  /\ MayStart(p)
  /\ LET reg == NormalizeId(cfg.regulator, id)
         key == getCacheKey(cfg.regulator, "getCharity", reg)
         got == IF UsesCache(cfg.regulator) THEN getCached(cache, key)
                ELSE [hit |-> FALSE, val |-> NoValue]
         c == [IdleCall EXCEPT !.op = "getCharity", !.id = id, !.key = reg,
                               !.seen = Seen(reg), !.over = ~got.hit /\ InFlight(p, reg)]
     IN /\ cache' = IF UsesCache(cfg.regulator) THEN CacheAfterGet(cache, key) ELSE cache
        /\ calls' = [calls EXCEPT ![p] =
                       IF got.hit THEN Returned(c, got.val)
                       ELSE request(c)]
  /\ UNCHANGED <<cfg, prev, peer, eval>>

\* client.getCharity(id) up to its first await, the use of the cache traced
StartGetCharityTraced(p, id) ==
  /\ MayStart(p)
  /\ LET reg == NormalizeId(cfg.regulator, id)
         key == getCacheKey(cfg.regulator, "getCharity", reg)
         got == IF UsesCache(cfg.regulator) THEN getCached(cache, key)
                ELSE [hit |-> FALSE, val |-> NoValue]
         c == [IdleCall EXCEPT !.op = "getCharity", !.id = id, !.key = reg,
                               !.seen = Seen(reg), !.over = ~got.hit /\ InFlight(p, reg)]
     IN /\ cache' = IF UsesCache(cfg.regulator) THEN CacheAfterGet(cache, key) ELSE cache
        /\ calls' = [calls EXCEPT ![p] =
                       IF got.hit THEN Returned(c, got.val)
                       ELSE request(c)]
        /\ prev' = [prev EXCEPT !.uses = IF got.hit THEN Touch(@, reg) ELSE @,
                                !.read = @ \/ (got.hit /\ prev.valid /\ prev.key = reg)]
  /\ UNCHANGED <<cfg, peer, eval>>

\* the exchange of call p settles, the use of the cache traced
SettleTraced(p, S) ==
  /\ calls[p].pc = "inflight"
  /\ \E out \in S :
       LET h == HttpSettle(calls[p], out)
           d == IF h.pc = "resolved" THEN Resume(h) ELSE h
           stored == h.pc = "resolved" /\ h.op = "getCharity" /\ d.outcome = "returned"
                     /\ UsesCache(cfg.regulator) /\ cfg.cacheEnabled
       IN /\ calls' = [calls EXCEPT ![p] = d]
          /\ cache' = IF h.pc = "resolved" /\ h.op = "getCharity"
                      THEN GetCharityCache(h, d) ELSE cache
          /\ prev' = [PrevAfter(d) EXCEPT !.uses = IF stored THEN Touch(prev.uses, d.key)
                                                    ELSE prev.uses]
  /\ UNCHANGED <<cfg, peer, eval>>

\* client.clearCache()
ClearCache ==
  /\ cache' = clearCache(cache)
  /\ prev' = [prev EXCEPT !.cleared = prev.valid, !.uses = <<>>]
  /\ UNCHANGED <<cfg, calls, peer, eval>>

\* one tick of the clock: every age grows (an age beyond the time-to-live is
\* kept at TtlTicks + 1)
Older(a) == IF a > TtlTicks THEN a ELSE a + 1

Tick ==
  /\ cache' = [i \in 1..Len(cache) |-> [cache[i] EXCEPT !.age = Older(@)]]
  /\ peer' = [i \in 1..Len(peer) |-> [peer[i] EXCEPT !.age = Older(@)]]
  /\ prev' = [prev EXCEPT !.age = IF prev.valid THEN Older(@) ELSE @]
  /\ UNCHANGED <<cfg, calls, eval>>

\* The client used sequentially: each call resolves before the next starts
Next ==
  \/ \E id \in Ids : StartGetCharity(1, id)
  \/ Settle(1, ClientOutcomes)
  \/ Wake(1)
  \/ ClearCache
  \/ Tick

Spec == Init /\ [][Next]_vars

\* The Request Core and the transport under every outcome of an exchange: one
\* call of search or get at a time
CoreNext ==
  \/ \E op \in {"search", "get"} : StartRequest(1, op)
  \/ Settle(1, Outcomes)
  \/ Wake(1)

SpecCore == InitCore /\ [][CoreNext]_vars

-----------------------------------------------------------------------------
(* The three clients: getCharity and search of CCEW, CCNI and OSCR *)

\* the identifiers callers pass to a client: bare, with the regulator's prefix
\* in mixed and in upper case (for CCEW letters are decoration), and another
\* number
ClientIds(regulator) ==
  IF regulator = "OSCR"
  THEN {<<"1">>, <<"s", "C", "1">>, <<"S", "C", "1">>, <<"2">>}
  ELSE {<<"1">>, <<"n", "I", "C", "1">>, <<"N", "I", "C", "1">>, <<"2">>}

AllConfigs ==
  [regulator : {"CCEW", "CCNI", "OSCR"}, cacheEnabled : BOOLEAN,
   retryAttempts : 0..MaxRetries, maxSize : 1..MaxSize]

InitClients ==
  InitWith({c \in AllConfigs : c.maxSize = MaxSize /\ c.retryAttempts <= ClientRetries})

\* the answers a lookup meets: a record, no record, and one status of each
\* class of failure, or a connection failure
LookupOutcomes ==
  {Wire(200, NoHeader, TRUE, "entity", 1), Wire(200, NoHeader, TRUE, "empty", 0)}
  \cup {Wire(s, NoHeader, TRUE, "empty", 0) : s \in {401, 403, 404, 429, 500}}
  \cup {Thrown("TypeError", FALSE)}

\* Ghost: whether the call that held the slot before was the same operation
\* with the same argument and returned
SeenCall(before, op, key) ==
  IF before.op = op /\ before.key = key /\ before.pc = "done" /\ before.outcome = "returned"
  THEN [NoSeen EXCEPT !.repeat = TRUE, !.value = before.value, !.fetches = before.fetches]
  ELSE NoSeen

\* Faulty variant: a search that repeats the one before is answered from memory
StartSearchCached(p) ==
  /\ MayStart(p)
  /\ LET c == [IdleCall EXCEPT !.op = "search", !.seen = SeenCall(calls[p], "search", <<>>)]
     IN calls' = [calls EXCEPT ![p] =
                    IF cfg.cacheEnabled /\ c.seen.repeat THEN Returned(c, c.seen.value)
                    ELSE request(c)]
  /\ UNCHANGED <<cfg, cache, prev, peer, eval>>

\* client.search(query) up to its await: buildQueryString, this.get
StartSearch(p) ==
  /\ MayStart(p)
  /\ calls' = [calls EXCEPT ![p] =
                 request([IdleCall EXCEPT !.op = "search",
                                          !.seen = SeenCall(calls[p], "search", <<>>)])]
  /\ UNCHANGED <<cfg, cache, prev, peer, eval>>

ClientsNext ==
  \/ \E id \in ClientIds(cfg.regulator) : StartGetCharity(1, id)
  \/ StartSearch(1)
  \/ Settle(1, LookupOutcomes)
  \/ Wake(1)
  \/ ClearCache

SpecClients == InitClients /\ [][ClientsNext]_vars

-----------------------------------------------------------------------------
(* The clients' other operations, one call at a time *)

\* the pages a caller asks for
Pages == {1, 5}

\* the answers of the list and annual-return endpoints: those of a lookup and
\* a body that is no JSON
OpsOutcomes == LookupOutcomes \cup {Wire(200, NoHeader, TRUE, "bad", 0)}

\* CCEW getTrustees / getFinancialHistory / getOtherRegulators up to await this.get
StartList(p, op, id) ==
  /\ cfg.regulator = "CCEW"
  /\ MayStart(p)
  /\ calls' = [calls EXCEPT ![p] =
                 request([IdleCall EXCEPT !.op = op, !.id = id, !.key = StripNonDigits(id)])]
  /\ UNCHANGED <<cfg, cache, prev, peer, eval>>

\* OSCR getAnnualReturns / getCharityWithFinancials up to the await of their
\* getCharity
StartOscr(p, op, id) ==
  /\ cfg.regulator = "OSCR"
  /\ MayStart(p)
  /\ calls' = [calls EXCEPT ![p] =
                 request([IdleCall EXCEPT !.op = op, !.id = id, !.key = EnsureSC(id),
                                          !.step = "charity"])]
  /\ UNCHANGED <<cfg, cache, prev, peer, eval>>

\* CCNIClient.getOtherRegulators(id)
GetOtherRegulatorsCcni(p, id) ==
  /\ cfg.regulator = "CCNI"
  /\ MayStart(p)
  /\ calls' = [calls EXCEPT ![p] =
                 CcniOtherRegulators([IdleCall EXCEPT !.op = "getOtherRegulators", !.id = id])]
  /\ UNCHANGED <<cfg, cache, prev, peer, eval>>

\* OSCRClient.searchByName(name, page) / getTrustees(id) / getOtherRegulators(id)
UnsupportedOscr(p, op, id, page) ==
  /\ cfg.regulator = "OSCR"
  /\ MayStart(p)
  /\ calls' = [calls EXCEPT ![p] =
                 OscrUnsupported([IdleCall EXCEPT !.op = op, !.id = id, !.page = page])]
  /\ UNCHANGED <<cfg, cache, prev, peer, eval>>

OpsNext ==
  \/ \E op \in ListOps, id \in ClientIds(cfg.regulator) : StartList(1, op, id)
  \/ \E op \in OscrOps, id \in ClientIds(cfg.regulator) : StartOscr(1, op, id)
  \/ \E id \in ClientIds(cfg.regulator) : GetOtherRegulatorsCcni(1, id)
  \/ \E op \in {"searchByName", "getTrustees", "getOtherRegulators"},
        id \in ClientIds(cfg.regulator), page \in Pages :
          UnsupportedOscr(1, op, id, page)
  \/ Settle(1, OpsOutcomes)
  \/ Wake(1)

SpecOps == InitClients /\ [][OpsNext]_vars


-----------------------------------------------------------------------------
(* Construction of a client *)

\* the apiKey of a configuration: left out, the empty string, a key
ApiKeys == {"undefined", "empty", "key"}

\* the configurations a client is constructed with
BuildConfigs ==
  [apiKey : ApiKeys, cacheEnabled : BOOLEAN, retryAttempts : 0..ClientRetries,
   maxSize : {Num(MaxSize)}]

\* before new XClient(config) has run
NoClient ==
  [regulator |-> "none", cacheEnabled |-> FALSE, retryAttempts |-> 0, maxSize |-> MaxSize,
   apiKey |-> "undefined", built |-> "no"]

\* !this.apiKey
Falsy(apiKey) == apiKey \in {"undefined", "empty"}

\* Faulty variant: the OSCR constructor accepts a client without a key
RequiresKeyCcewOnly(regulator) == regulator = "CCEW"

\* the constructors that test this.apiKey after super(config)
RequiresKey(regulator) == regulator \in {"CCEW", "OSCR"}

\* DEFAULT_CACHE_CONFIG.maxSize
DefaultCacheMaxSize == 100

\* BaseClient.constructor: the fields taken from the configuration, the
\* capacity of the cache being cacheConfig.maxSize ?? DEFAULT_CACHE_CONFIG.maxSize
BaseClient(regulator, config) ==
  [regulator |-> regulator, cacheEnabled |-> config.cacheEnabled,
   retryAttempts |-> config.retryAttempts,
   maxSize |-> IF config.maxSize = Unset THEN DefaultCacheMaxSize ELSE config.maxSize.n,
   apiKey |-> config.apiKey, built |-> "yes"]

\* new CCEWClient(config) / new CCNIClient(config) / new OSCRClient(config):
\* the client, or the Error the constructor throws
Construct(regulator, config) ==
  LET this == BaseClient(regulator, config)
  IN IF RequiresKey(regulator) /\ Falsy(this.apiKey)
     THEN [this EXCEPT !.built = "raised"]
     ELSE this

InitBuild ==
  /\ cfg = NoClient
  /\ calls = [p \in Procs |-> IdleCall]
  /\ cache = <<>>
  /\ prev = NoPrev
  /\ peer = <<>>
  /\ eval = NoEval

New(regulator, config) ==
  /\ cfg.built = "no"
  /\ cfg' = Construct(regulator, config)
  /\ UNCHANGED <<calls, cache, prev, peer, eval>>

\* a client is constructed, then used one call at a time
BuildNext ==
  \/ \E regulator \in {"CCEW", "CCNI", "OSCR"}, config \in BuildConfigs : New(regulator, config)
  \/ cfg.built = "yes" /\ \E id \in ClientIds(cfg.regulator) : StartGetCharity(1, id)
  \/ cfg.built = "yes" /\ Settle(1, LookupOutcomes)
  \/ cfg.built = "yes" /\ Wake(1)

SpecBuild == InitBuild /\ [][BuildNext]_vars


-----------------------------------------------------------------------------
(* core/base-client.ts: buildQueryString *)

\* the largest number of parameters of a query
MaxParams == 3

\* JavaScript values of a parameter
Undefined == [t |-> "undefined", s |-> <<>>, n |-> 0, b |-> FALSE]

NullValue == [t |-> "null", s |-> <<>>, n |-> 0, b |-> FALSE]

Str(s) == [t |-> "string", s |-> s, n |-> 0, b |-> FALSE]

Number(n) == [t |-> "number", s |-> <<>>, n |-> n, b |-> FALSE]

Bool(b) == [t |-> "boolean", s |-> <<>>, n |-> 0, b |-> b]

Digit(d) ==
  CASE d = 0 -> "0" [] d = 1 -> "1" [] d = 2 -> "2" [] d = 3 -> "3" [] d = 4 -> "4"
    [] d = 5 -> "5" [] d = 6 -> "6" [] d = 7 -> "7" [] d = 8 -> "8" [] d = 9 -> "9"

RECURSIVE Digits(_)
\* the decimal digits of a natural number
Digits(n) == IF n < 10 THEN <<Digit(n)>> ELSE Append(Digits(n \div 10), Digit(n % 10))

\* String(value)
String(v) ==
  CASE v.t = "string" -> v.s
    [] v.t = "number" -> Digits(v.n)
    [] v.t = "boolean" -> IF v.b THEN <<"t", "r", "u", "e">> ELSE <<"f", "a", "l", "s", "e">>
    [] v.t = "null" -> <<"n", "u", "l", "l">>
    [] OTHER -> <<"u", "n", "d", "e", "f", "i", "n", "e", "d">>

RECURSIVE FormEncode(_)
\* the application/x-www-form-urlencoded serializer of URLSearchParams: a
\* space becomes '+', the separators are percent-encoded
FormEncode(s) ==
  IF s = <<>> THEN <<>>
  ELSE (CASE Head(s) = " " -> <<"+">>
          [] Head(s) = "&" -> <<"%", "2", "6">>
          [] Head(s) = "=" -> <<"%", "3", "D">>
          [] Head(s) = "?" -> <<"%", "3", "F">>
          [] OTHER -> <<Head(s)>>) \o FormEncode(Tail(s))

RECURSIVE Serialize(_)
\* searchParams.toString(): name=value of each pair, joined by '&'
Serialize(pairs) ==
  IF pairs = <<>> THEN <<>>
  ELSE FormEncode(pairs[1][1]) \o <<"=">> \o FormEncode(pairs[1][2])
       \o (IF Len(pairs) > 1 THEN <<"&">> \o Serialize(Tail(pairs)) ELSE <<>>)

RECURSIVE AppendTruthy(_, _)
RECURSIVE AppendKept(_, _)
\* Faulty variant: if (value) searchParams.append(...), which drops 0 and false too
AppendTruthy(params, searchParams) ==
  IF params = <<>> THEN searchParams
  ELSE LET key == params[1].key
           value == params[1].value
       IN AppendTruthy(Tail(params),
            IF \/ (value.t = "string" /\ value.s # <<>>)
               \/ (value.t = "number" /\ value.n # 0)
               \/ (value.t = "boolean" /\ value.b)
            THEN Append(searchParams, <<key, String(value)>>)
            ELSE searchParams)

\* for (const [key, value] of Object.entries(params))
\*   if (value !== undefined && value !== null && value !== '') searchParams.append(...)
AppendKept(params, searchParams) ==
  IF params = <<>> THEN searchParams
  ELSE LET key == params[1].key
           value == params[1].value
       IN AppendKept(Tail(params),
            IF value # Undefined /\ value # NullValue /\ value # Str(<<>>)
            THEN Append(searchParams, <<key, String(value)>>)
            ELSE searchParams)

\* buildQueryString(params): params in the order Object.entries lists them
\* (the order of insertion, the names being no array indices)
buildQueryString(params) ==
  LET queryString == Serialize(AppendKept(params, <<>>))
  IN IF queryString # <<>> THEN <<"?">> \o queryString ELSE <<>>

\* the parameter names of the queries
QueryKeys ==
  {<<"p", "a", "g", "e">>, <<"s", "e", "a", "r", "c", "h">>, <<"n", "o", "t", "e">>,
   <<"f", "l", "a", "g">>}

QueryValues ==
  {Undefined, NullValue, Str(<<>>), Str(<<"t", "e", "s", "t">>), Str(<<"a", " ", "b">>),
   Number(0), Number(1), Bool(FALSE)}

\* the parameter objects: up to max entries with distinct names
QueryParams(max) ==
  UNION {{ps \in [1..k -> [key : QueryKeys, value : QueryValues]] :
            \A i, j \in 1..k : i # j => ps[i].key # ps[j].key} : k \in 0..max}

-----------------------------------------------------------------------------
(* The search transforms of the three clients *)

\* the largest totals and page counts an upstream reports
MaxTotal == 5

\* the largest page size an upstream serves
MaxPageSize == 2

\* raw.data.length || 100
DefaultPageSize == 100

\* a page of an upstream's search answer: the number of matches (totalResults
\* of CCEW, totalItems of CCNI), the page size and page number, the page count
\* (totalPages of CCNI and OSCR) and the number of items on the page
RawPages ==
  [total : 0..MaxTotal, pageSize : 1..MaxPageSize, page : 1..2, totalPages : 0..MaxTotal,
   length : 0..MaxPageSize]

\* Faulty variant: the page count is rounded down
MathFloorDiv(a, b) == a \div b

\* Math.ceil(a / b) for a >= 0, b > 0
MathCeilDiv(a, b) == IF a % b = 0 THEN a \div b ELSE (a \div b) + 1

SearchResult(items, total, page, pageSize, totalPages) ==
  [items |-> items, total |-> total, page |-> page, pageSize |-> pageSize,
   totalPages |-> totalPages]

\* ccew/transform.ts transformSearchResponse
CcewSearchResponse(raw) ==
  SearchResult(raw.length, raw.total, raw.page, raw.pageSize,
               MathCeilDiv(raw.total, raw.pageSize))

\* ccni/transform.ts transformSearchResponse
CcniSearchResponse(raw) ==
  SearchResult(raw.length, raw.total, raw.page, raw.pageSize, raw.totalPages)

\* oscr/transform.ts transformAllCharitiesResponse
transformAllCharitiesResponse(raw) ==
  LET pageSize == IF raw.length # 0 THEN raw.length ELSE DefaultPageSize
      total == raw.totalPages * pageSize
  IN SearchResult(raw.length, total, raw.page, pageSize, raw.totalPages)

transformSearchResponse(regulator, raw) ==
  CASE regulator = "CCEW" -> CcewSearchResponse(raw)
    [] regulator = "CCNI" -> CcniSearchResponse(raw)
    [] OTHER -> transformAllCharitiesResponse(raw)

-----------------------------------------------------------------------------
(* The status dictionaries of the three transforms *)

CharityStatus == {"ACTIVE", "REMOVED", "IN_DEFAULT", "LATE", "RECENTLY_REGISTERED"}

\* const statusMap: Record<string, CharityStatus> = { ... }: the own properties
statusMap(regulator) ==
  CASE regulator = "CCEW" ->
         [k \in {"Registered", "Removed"} |->
            IF k = "Registered" THEN "ACTIVE" ELSE "REMOVED"]
    [] regulator = "CCNI" ->
         [k \in {"Up-to-date", "Due documents received late", "In default", "Removed",
                 "Recently registered"} |->
            CASE k = "Up-to-date" -> "ACTIVE"
              [] k = "Due documents received late" -> "LATE"
              [] k = "In default" -> "IN_DEFAULT"
              [] k = "Removed" -> "REMOVED"
              [] OTHER -> "RECENTLY_REGISTERED"]
    [] OTHER ->
         [k \in {"Active", "Removed"} |-> IF k = "Active" THEN "ACTIVE" ELSE "REMOVED"]

\* the properties an object literal inherits from Object.prototype
ObjectPrototype ==
  {"constructor", "toString", "toLocaleString", "valueOf", "hasOwnProperty",
   "isPrototypeOf", "propertyIsEnumerable", "__proto__"}

\* obj[key]: an own property, else one inherited from Object.prototype (a
\* function, for __proto__ the prototype object), else undefined
GetProperty(obj, key) ==
  IF key \in DOMAIN obj THEN obj[key]
  ELSE IF key \in ObjectPrototype THEN "[object]"
  ELSE "undefined"

\* statusMap[status] ?? 'ACTIVE'
mapStatus(regulator, status) ==
  LET found == GetProperty(statusMap(regulator), status)
  IN IF found = "undefined" THEN "ACTIVE" ELSE found

\* the status strings an upstream record carries: those of the dictionaries,
\* other spellings and other words
RawStatuses ==
  UNION {DOMAIN statusMap(r) : r \in {"CCEW", "CCNI", "OSCR"}}
  \cup {"", "active", "REMOVED", "Suspended", "undefined", "constructor", "toString"}

-----------------------------------------------------------------------------
(* The helpers and transforms, each applied to one argument *)

\* JavaScript null
JsNull == [tag |-> "null", n |-> 0]

\* a ?? b
Coalesce(a, b) == IF a = Unset \/ a = JsNull THEN b ELSE a

\* a Date
Date(d) == [tag |-> "Date", n |-> d]

\* parseDate(dateString): null for a missing or empty string and for text that
\* is no date, the Date otherwise
parseDate(dateString) ==
  IF dateString.tag = "iso" THEN Date(dateString.n) ELSE JsNull

\* the attributes enrichCharityWithAnnualReturn sets
Enriched ==
  {"employeeCount", "trusteeCount", "latestIncome", "latestExpenditure", "financialYearEnd"}

\* Faulty variant: Object.assign(charity, {...}), which writes into the record given
enrichCharityInPlace(charity, annualReturn) ==
  LET merged ==
        [charity EXCEPT
           !.employeeCount = Coalesce(annualReturn.PaidStaff, @),
           !.trusteeCount = Coalesce(annualReturn.TotalNumberofCharityTrustees, @),
           !.latestIncome = Coalesce(annualReturn.GrossIncome, @),
           !.latestExpenditure = Coalesce(annualReturn.GrossExpenditure, @),
           !.financialYearEnd = Coalesce(parseDate(annualReturn.AccountingReferenceDate), @)]
  IN [result |-> merged, charity |-> merged]

\* enrichCharityWithAnnualReturn attribute by attribute: { ...charity, five
\* attributes set }, a new object; result is what it returns, charity the
\* record it was given as the call leaves it
enrichCharityFields(charity, annualReturn) ==
  [result |->
     [k \in DOMAIN charity |->
        CASE k = "employeeCount" -> Coalesce(annualReturn.PaidStaff, charity.employeeCount)
          [] k = "trusteeCount" ->
               Coalesce(annualReturn.TotalNumberofCharityTrustees, charity.trusteeCount)
          [] k = "latestIncome" -> Coalesce(annualReturn.GrossIncome, charity.latestIncome)
          [] k = "latestExpenditure" ->
               Coalesce(annualReturn.GrossExpenditure, charity.latestExpenditure)
          [] k = "financialYearEnd" ->
               Coalesce(parseDate(annualReturn.AccountingReferenceDate),
                        charity.financialYearEnd)
          [] OTHER -> charity[k]],
   charity |-> charity]

\* the records transformCharity returns: employeeCount and trusteeCount null,
\* the figures of the latest year a number or null
Charities ==
  [id : {<<"S", "C", "1">>}, regulator : {<<"OSCR">>}, name : {<<"a">>, <<"b">>},
   purposes : {<<>>, <<"p">>}, raw : {<<"r">>},
   employeeCount : {JsNull}, trusteeCount : {JsNull},
   latestIncome : {JsNull, Num(1)}, latestExpenditure : {JsNull, Num(1)},
   financialYearEnd : {JsNull, Date(1)}]

\* the annual returns of the upstream: each figure present, or missing
AnnualReturns ==
  [PaidStaff : {Unset, JsNull, Num(2)}, TotalNumberofCharityTrustees : {Unset, Num(2)},
   GrossIncome : {Unset, Num(2)}, GrossExpenditure : {Unset, Num(0)},
   AccountingReferenceDate : {Unset, [tag |-> "text", n |-> 0], [tag |-> "iso", n |-> 2]}]

\* identifiers of every form: those callers pass, a prefix given twice,
\* lower-case letters without the prefix, decoration inside the number
NormalizeInputs(regulator) ==
  ClientIds(regulator)
  \cup {<<"N", "I", "C", "N", "I", "C", "1">>, <<"S", "C", "S", "C", "1">>, <<"s", "1">>,
        <<"1", "-", "2">>, <<>>}

\* the functions applied
EvalFns ==
  {"buildQueryString", "enrichCharityWithAnnualReturn", "normalizeId",
   "transformSearchResponse", "mapStatus"}

\* the calls of a function: the function with each of its arguments
EvalInputs(fn) ==
  CASE fn = "buildQueryString" ->
         {[NoEval EXCEPT !.fn = fn, !.arg = ps] : ps \in QueryParams(MaxParams)}
    [] fn = "enrichCharityWithAnnualReturn" ->
         {[NoEval EXCEPT !.fn = fn, !.arg = [charity |-> c, annualReturn |-> a]] :
            c \in Charities, a \in AnnualReturns}
    [] fn = "normalizeId" ->
         {[NoEval EXCEPT !.fn = fn, !.arg = [regulator |-> r, id |-> id]] :
            r \in {"CCEW", "CCNI", "OSCR"},
            id \in NormalizeInputs("CCNI") \cup NormalizeInputs("OSCR")}
    [] fn = "transformSearchResponse" ->
         {[NoEval EXCEPT !.fn = fn, !.arg = [regulator |-> r, raw |-> raw]] :
            r \in {"CCEW", "CCNI", "OSCR"},
            raw \in {x \in RawPages : x.length <= x.pageSize}}
    [] OTHER ->
         {[NoEval EXCEPT !.fn = fn, !.arg = [regulator |-> r, status |-> s]] :
            r \in {"CCEW", "CCNI", "OSCR"}, s \in RawStatuses}

InitEval ==
  /\ cfg = NoClient
  /\ calls = [p \in Procs |-> IdleCall]
  /\ cache = <<>>
  /\ prev = NoPrev
  /\ peer = <<>>
  /\ \E fn \in EvalFns : eval \in EvalInputs(fn)

Apply(fn, out) ==
  /\ eval.fn = fn /\ ~eval.done
  /\ eval' = [eval EXCEPT !.out = out, !.done = TRUE]
  /\ UNCHANGED <<cfg, calls, cache, prev, peer>>

BuildQueryString == Apply("buildQueryString", buildQueryString(eval.arg))

TransformSearchResponse ==
  Apply("transformSearchResponse", transformSearchResponse(eval.arg.regulator, eval.arg.raw))

MapStatus == Apply("mapStatus", mapStatus(eval.arg.regulator, eval.arg.status))

\* the normalization at the head of getCharity, applied to an identifier and
\* then to its own result
NormalizeTwice ==
  LET once == NormalizeId(eval.arg.regulator, eval.arg.id)
  IN Apply("normalizeId",
           [once |-> once, twice |-> NormalizeId(eval.arg.regulator, once)])

EnrichCharityWithAnnualReturn ==
  Apply("enrichCharityWithAnnualReturn",
        enrichCharityFields(eval.arg.charity, eval.arg.annualReturn))

EvalNext ==
  \/ BuildQueryString
  \/ EnrichCharityWithAnnualReturn
  \/ NormalizeTwice
  \/ TransformSearchResponse
  \/ MapStatus

SpecEval == InitEval /\ [][EvalNext]_vars


-----------------------------------------------------------------------------
(* Overlapping lookups: a getCharity is started while others are in flight *)

\* one number, so that every lookup has the same cache key
OverlapIds == {<<"1">>}

\* a record in either version, or no record
OverlapOutcomes ==
  {Wire(200, NoHeader, TRUE, "entity", v) : v \in Versions}
  \cup {Wire(404, NoHeader, TRUE, "empty", 0)}

InitOverlap ==
  InitWith({c \in Configs : c.maxSize = MaxSize /\ c.retryAttempts = 0})

OverlapNext ==
  \/ \E p \in Procs, id \in OverlapIds : StartGetCharity(p, id)
  \/ \E p \in Procs : Settle(p, OverlapOutcomes)

SpecOverlap == InitOverlap /\ [][OverlapNext]_vars


-----------------------------------------------------------------------------
(* The capacity of the cache: lookups of more numbers than the cache holds *)

\* one number more than the largest capacity configured
LruIds == {<<Digit(i)>> : i \in 1..(MaxSize + 1)}

\* caching clients of every capacity, the default capacity included
LruConfigs ==
  [apiKey : {"key"}, cacheEnabled : {TRUE}, retryAttempts : {0},
   maxSize : {Unset} \cup {Num(n) : n \in 1..MaxSize}]

InitLru ==
  InitWith({BaseClient(r, config) : r \in {"CCEW", "CCNI"}, config \in LruConfigs})

\* a record, or no record
LruOutcomes == {Wire(200, NoHeader, TRUE, "entity", 1), Wire(404, NoHeader, TRUE, "empty", 0)}

LruNext ==
  \/ \E id \in LruIds : StartGetCharityTraced(1, id)
  \/ SettleTraced(1, LruOutcomes)
  \/ ClearCache

SpecLru == InitLru /\ [][LruNext]_vars

-----------------------------------------------------------------------------
(* The time-to-live of the cache: lookups, reads from the cache, and ticks *)

TtlIds == {<<"1">>, <<"2">>}

InitTtl ==
  InitWith({c \in Configs : c.maxSize = MaxSize /\ c.retryAttempts = 0})

TtlNext ==
  \/ \E id \in TtlIds : StartGetCharityTraced(1, id)
  \/ SettleTraced(1, LruOutcomes)
  \/ ClearCache
  \/ Tick

SpecTtl == InitTtl /\ [][TtlNext]_vars


-----------------------------------------------------------------------------
(* Two client instances of one configuration: the client of cfg, whose calls *)
(* are in slot 1, and a second one (the peer), whose calls are in slot 2     *)

\* the slot of the peer's calls
PeerSlot == 2

PeerIds == {<<"1">>, <<"2">>}

PeerOutcomes ==
  {Wire(200, NoHeader, TRUE, "entity", v) : v \in Versions}
  \cup {Wire(404, NoHeader, TRUE, "empty", 0)}

\* Faulty variant: the LRUCache is one object shared by the instances
PeerStoresShared(new) == [cache |-> new, peer |-> new]

\* this.cache of the peer is the LRUCache its own constructor made: what the
\* peer's cache operations leave in the two caches
PeerStores(new) == [cache |-> cache, peer |-> new]

\* peer.getCharity(id) up to its first await
PeerGetCharity(id) ==
  /\ MayStart(PeerSlot)
  /\ LET reg == NormalizeId(cfg.regulator, id)
         key == getCacheKey(cfg.regulator, "getCharity", reg)
         got == IF UsesCache(cfg.regulator) THEN getCached(peer, key)
                ELSE [hit |-> FALSE, val |-> NoValue]
         c == [IdleCall EXCEPT !.op = "getCharity", !.id = id, !.key = reg]
         new == PeerStores(IF UsesCache(cfg.regulator) THEN CacheAfterGet(peer, key) ELSE peer)
     IN /\ cache' = new.cache
        /\ peer' = new.peer
        /\ calls' = [calls EXCEPT ![PeerSlot] =
                       IF got.hit THEN Returned(c, got.val)
                       ELSE request(c)]
  /\ UNCHANGED <<cfg, prev, eval>>

\* the exchange of the peer's call settles
PeerSettle(S) ==
  /\ calls[PeerSlot].pc = "inflight"
  /\ \E out \in S :
       LET h == HttpSettle(calls[PeerSlot], out)
           d == IF h.pc = "resolved" THEN Resume(h) ELSE h
           new == PeerStores(IF h.pc = "resolved" /\ d.outcome = "returned"
                                 /\ UsesCache(cfg.regulator)
                             THEN setCache(peer, getCacheKey(cfg.regulator, "getCharity", h.key),
                                           d.value)
                             ELSE peer)
       IN /\ calls' = [calls EXCEPT ![PeerSlot] = d]
          /\ cache' = new.cache
          /\ peer' = new.peer
  /\ UNCHANGED <<cfg, prev, eval>>

\* peer.clearCache()
PeerClearCache ==
  /\ LET new == PeerStores(clearCache(peer))
     IN cache' = new.cache /\ peer' = new.peer
  /\ UNCHANGED <<cfg, calls, prev, eval>>

InitPeers ==
  InitWith({c \in Configs : c.maxSize = MaxSize /\ c.retryAttempts = 0})

PeersNext ==
  \/ \E id \in PeerIds : StartGetCharity(1, id)
  \/ Settle(1, PeerOutcomes)
  \/ ClearCache
  \/ \E id \in PeerIds : PeerGetCharity(id)
  \/ PeerSettle(PeerOutcomes)
  \/ PeerClearCache

SpecPeers == InitPeers /\ [][PeersNext]_vars


-----------------------------------------------------------------------------
(* utils/http.ts called directly: the timeout of an attempt, the backoff     *)
(* delays, and the end of a call                                             *)

\* the ticks of the clock an attempt waits for its answer before the timer of
\* the timeout option fires
TimeoutTicks == 2

\* the base delays callers configure, in ms (none, the default, one above the
\* configured maximum)
BaseDelays == {0, DefaultDelayMs, 6000}

\* the maximum delays callers configure: undefined, or a number of ms
MaxDelays == {Unset, Num(3000)}

\* options.retry: every field given, or (as BaseClient.request does) the
\* attempts and the base delay only
RetryOverrides ==
  [maxRetries : 0..MaxRetries, delayMs : BaseDelays, exponentialBackoff : BOOLEAN,
   maxDelayMs : MaxDelays]
  \cup [maxRetries : 0..MaxRetries, delayMs : BaseDelays]

\* { ...DEFAULT_RETRY_CONFIG, ...retryOverrides }
Merge(defaults, overrides) ==
  [k \in DOMAIN defaults |-> IF k \in DOMAIN overrides THEN overrides[k] ELSE defaults[k]]

\* what an exchange answers before the timeout: a success, a retryable and a
\* final failure status, a connection failure, another exception
HttpOutcomes ==
  {Wire(200, NoHeader, TRUE, "entity", 1), Wire(503, NoHeader, TRUE, "empty", 0),
   Wire(404, NoHeader, TRUE, "empty", 0), Thrown("TypeError", FALSE), Thrown("Error", FALSE)}

InitHttp ==
  /\ cfg = NoClient
  /\ calls = [p \in Procs |-> IdleCall]
  /\ cache = <<>>
  /\ prev = NoPrev
  /\ peer = <<>>
  /\ eval = NoEval

\* httpRequest(url, {timeout, retry}) up to its first await
StartHttpRequest(p, retryOverrides) ==
  /\ MayStart(p)
  /\ LET retryConfig == Merge(DEFAULT_RETRY_CONFIG, retryOverrides)
     IN calls' = [calls EXCEPT ![p] =
                    HttpStart([IdleCall EXCEPT !.op = "httpRequest", !.retry = retryConfig],
                              retryConfig.maxRetries)]
  /\ UNCHANGED <<cfg, cache, prev, peer, eval>>

\* a tick passes while the fetch of call p is pending and its timer has not fired
Wait(p) ==
  /\ calls[p].pc = "inflight" /\ calls[p].waited < TimeoutTicks
  /\ calls' = [calls EXCEPT ![p].waited = @ + 1]
  /\ UNCHANGED <<cfg, cache, prev, peer, eval>>

\* the fetch of call p settles with out: the body of the loop, the delay of
\* the sleep it starts being calculateDelay(attempt, retryConfig)
TimedSettle(p, out) ==
  LET c == calls[p]
      h == HttpSettle(c, out)
      g == [h EXCEPT !.waited = 0,
                     !.delays = IF h.pc = "sleep"
                                THEN Append(@, calculateDelay(c.attempt, c.retry)) ELSE @]
  IN /\ calls' = [calls EXCEPT ![p] = IF g.pc = "resolved" THEN Resume(g) ELSE g]
     /\ UNCHANGED <<cfg, cache, prev, peer, eval>>

\* the exchange of call p answers before the timer fires
Answer(p, S) ==
  /\ calls[p].pc = "inflight" /\ calls[p].waited < TimeoutTicks
  /\ \E out \in S : TimedSettle(p, out)

\* setTimeout(() => controller.abort(), timeout) fires: the fetch rejects with
\* an AbortError
Abort(p) ==
  /\ calls[p].pc = "inflight" /\ calls[p].waited = TimeoutTicks
  /\ TimedSettle(p, Thrown("AbortError", FALSE))

HttpNext ==
  \/ \E retryOverrides \in RetryOverrides : StartHttpRequest(1, retryOverrides)
  \/ Wait(1)
  \/ Answer(1, HttpOutcomes)
  \/ Abort(1)
  \/ Wake(1)

SpecHttp == InitHttp /\ [][HttpNext]_vars

\* every exchange ends (by its answer or by the timer) and every sleep ends
SpecHttpFair ==
  /\ SpecHttp
  /\ WF_vars(Wait(1) \/ Answer(1, HttpOutcomes) \/ Abort(1))
  /\ WF_vars(Wake(1))


-----------------------------------------------------------------------------
(* clearCache() while lookups are in flight *)

\* client.clearCache(), the calls whose exchange is in flight marked
ClearCacheCut ==
  /\ cache' = clearCache(cache)
  /\ prev' = [prev EXCEPT !.cleared = prev.valid, !.uses = <<>>, !.stale = {}]
  /\ calls' = [p \in Procs |->
                 IF calls[p].op = "getCharity" /\ calls[p].pc = "inflight"
                 THEN [calls[p] EXCEPT !.cut = TRUE] ELSE calls[p]]
  /\ UNCHANGED <<cfg, peer, eval>>

\* the exchange of call p settles, the entries stored by marked calls traced
SettleCut(p, S) ==
  /\ calls[p].pc = "inflight"
  /\ \E out \in S :
       LET h == HttpSettle(calls[p], out)
           d == IF h.pc = "resolved" THEN Resume(h) ELSE h
           stored == h.pc = "resolved" /\ h.op = "getCharity" /\ d.outcome = "returned"
                     /\ UsesCache(cfg.regulator) /\ cfg.cacheEnabled
       IN /\ calls' = [calls EXCEPT ![p] = d]
          /\ cache' = IF h.pc = "resolved" /\ h.op = "getCharity"
                      THEN GetCharityCache(h, d) ELSE cache
          /\ prev' = [PrevAfter(d) EXCEPT
                        !.stale = IF ~stored THEN prev.stale
                                  ELSE IF d.cut THEN prev.stale \cup {d.key}
                                  ELSE prev.stale \ {d.key}]
  /\ UNCHANGED <<cfg, peer, eval>>

\* lookups of one number in every slot, without retries, and clearCache()
CutNext ==
  \/ \E p \in Procs, id \in OverlapIds : StartGetCharity(p, id)
  \/ \E p \in Procs : SettleCut(p, OverlapOutcomes)
  \/ ClearCacheCut

SpecCut == InitOverlap /\ [][CutNext]_vars


-----------------------------------------------------------------------------
(* The forms of an identifier: lookups one after the other, each slot        *)
(* keeping the last call made in it                                          *)

\* the two slots used: a call and the call that follows it
FormSlots == {1, PeerSlot}

\* client.getCharity(id) once every other call has resolved
GetCharityInTurn(p, id) ==
  /\ \A q \in Procs \ {p} : MayStart(q)
  /\ StartGetCharity(p, id)

FormsNext ==
  \/ \E p \in FormSlots, id \in Ids : GetCharityInTurn(p, id)
  \/ \E p \in FormSlots : Settle(p, LruOutcomes)
  \/ ClearCache

SpecForms == InitOverlap /\ [][FormsNext]_vars

-----------------------------------------------------------------------------
(* The claims *)

LastTag(c) == c.tags[Len(c.tags)]

\* the outcomes the retry policy names: a status >= 500, 408 or 429, or a
\* connectivity failure (an abort, a TypeError, a message about fetch)
RetryClass(tag) ==
  \/ tag.status >= 500
  \/ tag.status \in {408, 429}
  \/ tag.name \in {"AbortError", "TypeError"}
  \/ tag.msgFetch

ConnectivityClass(tag) == tag.name \in {"AbortError", "TypeError"} \/ tag.msgFetch

\* C1: with maxRetries = N, a call answered 500 then 200 returns the 200
\* response after exactly two fetches, and a call answered 500 at every
\* attempt returns the 500 response (ok = false) after exactly 1 + N fetches.
C1_RetryOn500 ==
  \A p \in Procs :
    LET c == calls[p]
    IN c.pc = "done" /\ c.httpCalls = 1 =>
         /\ (Len(c.tags) >= 2 /\ c.tags[1].status = 500 /\ c.tags[2].status = 200
               => /\ c.http.state = "returned"
                  /\ c.http.resp.status = 200 /\ c.http.resp.ok
                  /\ c.fetches = 2)
         /\ ((\A i \in 1..Len(c.tags) : c.tags[i].status = 500)
               => /\ c.http.state = "returned"
                  /\ c.http.resp.status = 500 /\ ~c.http.resp.ok
                  /\ c.fetches = 1 + c.maxRetries)

C1_Witness ==
  \E p \in Procs :
    /\ calls[p].pc = "done" /\ calls[p].fetches = 2
    /\ Len(calls[p].tags) = 2
    /\ calls[p].tags[1].status = 500 /\ calls[p].tags[2].status = 200
    /\ calls[p].http.resp.status = 200

\* C2: a 404 answer is never retried (it is the last exchange of its call, the
\* only one when it answers the first attempt) and the Request Core raises
\* CharityNotFoundError for it, whatever retryAttempts is.
C2_NotFoundNotRetried ==
  \A p \in Procs :
    LET c == calls[p]
    IN \A i \in 1..Len(c.tags) :
         c.tags[i].status = 404 =>
           /\ i = Len(c.tags) /\ c.fetches = i
           /\ c.pc = "done"
           /\ c.outcome = "raised" /\ c.error.kind = "CharityNotFoundError"

C2_Witness ==
  \E p \in Procs :
    /\ calls[p].pc = "done" /\ calls[p].maxRetries >= 1
    /\ Len(calls[p].tags) = 1 /\ calls[p].tags[1].status = 404
    /\ calls[p].fetches = 1
    /\ calls[p].error.kind = "CharityNotFoundError"

\* C3: an attempt is retried only when it answered a status >= 500, 408 or
\* 429 or failed with a connectivity error; any other 4xx answer ends the call
\* and is returned as data, after one fetch when it answers the first attempt.
C3_RetryOnlyRetryable ==
  \A p \in Procs :
    LET c == calls[p]
    IN \A i \in 1..Len(c.tags) :
         /\ (i < Len(c.tags) \/ c.pc \in {"sleep", "inflight"}) => RetryClass(c.tags[i])
         /\ (c.tags[i].status \in (400..499) \ {408, 429})
              => /\ i = Len(c.tags) /\ c.fetches = i
                 /\ c.http.state = "returned"
                 /\ c.http.resp.status = c.tags[i].status /\ ~c.http.resp.ok

C3_Witness ==
  \E p \in Procs :
    /\ calls[p].pc = "done" /\ calls[p].maxRetries = MaxRetries
    /\ Len(calls[p].tags) = 2
    /\ calls[p].tags[1].status = 408 /\ calls[p].tags[2].status = 403
    /\ calls[p].http.resp.status = 403

KindOf(status) ==
  CASE status \in {401, 403} -> "AuthenticationError"
    [] status = 404 -> "CharityNotFoundError"
    [] status = 429 -> "RateLimitError"
    [] OTHER -> "ApiError"

\* C6: for a non-success response the Request Core raises exactly the error of
\* its status: AuthenticationError with the status for 401 and 403,
\* CharityNotFoundError for 404, RateLimitError for 429, ApiError with status
\* and status text for any other; for a success response it raises nothing.
C6_Classification ==
  \A p \in Procs :
    LET c == calls[p]
        r == c.http.resp
    IN c.pc = "done" /\ c.op \in {"get", "search"} /\ c.http.state = "returned" =>
         IF r.status >= 200 /\ r.status <= 299
         THEN c.op = "get" => c.outcome = "returned" /\ c.error = NoError
         ELSE /\ c.outcome = "raised"
              /\ c.error.kind = KindOf(r.status)
              /\ c.error.kind \in {"AuthenticationError", "ApiError"}
                   => c.error.status = r.status
              /\ c.error.kind = "ApiError" => c.error.statusText = r.statusText

C6_Witness ==
  \E p \in Procs :
    /\ calls[p].pc = "done" /\ calls[p].op = "get"
    /\ calls[p].http.resp.status = 403
    /\ calls[p].outcome = "raised"
    /\ calls[p].error.kind = "AuthenticationError" /\ calls[p].error.status = 403

AllDigits(t) == t # <<>> /\ \A i \in 1..Len(t) : IsDigit(t[i])

\* C7: the RateLimitError of a 429 response has retryAfter equal to the
\* integer of a Retry-After header that is a valid integer, and unset when the
\* header is absent or not a number.
C7_RetryAfterParsed ==
  \A p \in Procs :
    LET c == calls[p]
        h == c.http.resp.retryAfter
    IN c.pc = "done" /\ c.error.kind = "RateLimitError" =>
         /\ (h.has /\ h.text = <<"6", "0">>) => c.error.retryAfter = Num(60)
         /\ (~h.has \/ ~AllDigits(h.text)) => c.error.retryAfter = Unset

\* C8: a client operation raises only when its call is over, after the last
\* attempt the retry policy allows; answered 429 at every attempt, search
\* raises RateLimitError after exactly 1 + retryAttempts fetches; and the
\* error raised is the one of the last attempt.
C8_RetriesInvisible ==
  \A p \in Procs :
    LET c == calls[p]
    IN /\ c.pc \in {"inflight", "sleep"} => c.outcome = "none"
       /\ c.outcome = "raised"
            => /\ c.pc = "done" /\ Len(c.tags) >= 1
               /\ Len(c.tags) = 1 + cfg.retryAttempts \/ ~RetryClass(LastTag(c))
               /\ c.error.kind = "NetworkError" => LastTag(c).name # "none"
               /\ c.error.kind \in {"AuthenticationError", "CharityNotFoundError",
                                    "RateLimitError", "ApiError"}
                    => /\ LastTag(c).name = "none"
                       /\ c.error.kind = KindOf(LastTag(c).status)
       /\ (/\ c.pc = "done" /\ c.op = "search"
           /\ \A i \in 1..Len(c.tags) : c.tags[i].status = 429)
            => /\ c.outcome = "raised" /\ c.error.kind = "RateLimitError"
               /\ c.fetches = 1 + cfg.retryAttempts

C8_Witness ==
  \E p \in Procs :
    /\ calls[p].pc = "done" /\ calls[p].op = "search"
    /\ cfg.retryAttempts = MaxRetries
    /\ Len(calls[p].tags) = 1 + MaxRetries
    /\ \A i \in 1..Len(calls[p].tags) : calls[p].tags[i].status = 429
    /\ calls[p].error.kind = "RateLimitError"

\* C9: with caching enabled, a getCharity that follows a getCharity of the
\* same identifier which went to the upstream and returned (no clearCache in
\* between, within the time-to-live) makes no transport call and returns the
\* same result; after clearCache the repeat goes to the transport again.
C9_SecondCallFromCache ==
  \A p \in Procs :
    LET c == calls[p]
    IN cfg.cacheEnabled /\ c.op = "getCharity" =>
         /\ c.seen.fresh
              => /\ c.pc = "done" /\ c.outcome = "returned"
                 /\ c.httpCalls = 0 /\ c.fetches = 0
                 /\ c.value = c.seen.value
         /\ c.seen.cleared => c.httpCalls = 1 /\ c.fetches >= 1

C9_Witness ==
  \E p \in Procs :
    /\ cfg.cacheEnabled
    /\ calls[p].op = "getCharity" /\ calls[p].pc = "done"
    /\ calls[p].seen.fresh
    /\ calls[p].value.kind = "charity" /\ calls[p].httpCalls = 0

AllAbsent(c) == Len(c.tags) >= 1 /\ \A i \in 1..Len(c.tags) : IsAbsent(c.tags[i])

\* C10: getCharity of an identifier the upstream answers with 404 or an empty
\* success body returns null after one fetch; the next getCharity of it
\* returns null too, without a fetch when caching is enabled (no clearCache in
\* between, within the time-to-live) and with one more fetch when it is
\* disabled.
C10_AbsentIsNull ==
  \A p \in Procs :
    LET c == calls[p]
    IN c.op = "getCharity" /\ c.pc = "done" =>
         /\ AllAbsent(c) => c.outcome = "returned" /\ c.value = Null /\ c.fetches = 1
         /\ (cfg.cacheEnabled /\ c.seen.fresh /\ c.seen.absent)
              => /\ c.seen.value = Null
                 /\ c.outcome = "returned" /\ c.value = Null
                 /\ c.seen.fetches + c.fetches = 1
         /\ (~cfg.cacheEnabled /\ c.seen.repeat /\ c.seen.absent /\ AllAbsent(c))
              => /\ c.seen.value = Null
                 /\ c.outcome = "returned" /\ c.value = Null
                 /\ c.seen.fetches + c.fetches = 2

C10_Witness ==
  \E p \in Procs :
    /\ cfg.cacheEnabled
    /\ calls[p].op = "getCharity" /\ calls[p].pc = "done"
    /\ calls[p].seen.fresh /\ calls[p].seen.absent
    /\ calls[p].value = Null /\ calls[p].fetches = 0

\* C11: with caching enabled, a getCharity of the OSCR client that repeats a
\* getCharity of the same number (no clearCache in between) makes no transport
\* call, whether the result was a record or null; after clearCache, or with
\* caching disabled, the repeat goes to the transport.
C11_OscrGetCharityCached ==
  \A p \in Procs :
    LET c == calls[p]
    IN cfg.regulator = "OSCR" /\ c.op = "getCharity" /\ c.seen.repeat =>
         IF cfg.cacheEnabled /\ c.seen.fresh
         THEN c.httpCalls = 0 /\ c.fetches = 0
         ELSE c.httpCalls = 1

\* C12 as claimed: with caching enabled, a search that repeats the search
\* before it makes no transport call.
C12_SearchCached ==
  \A p \in Procs :
    LET c == calls[p]
    IN cfg.cacheEnabled /\ c.op = "search" /\ c.seen.repeat =>
         c.httpCalls = 0 /\ c.fetches = 0

\* C12 amended: search is not cached: every search call goes to the
\* transport, so two successive identical searches invoke it once each,
\* caching enabled or not.
C12_SearchNotCached ==
  \A p \in Procs :
    LET c == calls[p]
    IN c.op = "search" =>
         /\ c.httpCalls = 1 /\ c.fetches >= 1
         /\ c.seen.repeat => c.seen.fetches + c.fetches >= 2
         /\ c.pc = "done" /\ c.outcome = "returned" => c.value.kind = "search"

C12_Witness ==
  \E p \in Procs :
    /\ cfg.cacheEnabled
    /\ calls[p].op = "search" /\ calls[p].pc = "done"
    /\ calls[p].seen.repeat
    /\ calls[p].httpCalls = 1 /\ calls[p].outcome = "returned"

\* the cache keys of the getCharity calls made on the client
LookupKeys ==
  {getCacheKey(cfg.regulator, "getCharity", NormalizeId(cfg.regulator, id)) :
     id \in ClientIds(cfg.regulator)}

\* C13: on a client with the cache disabled, after any sequence of operations
\* the cache holds nothing, getCached finds no key, setCache and clearCache
\* leave the cache as it is, and every getCharity call goes to the transport.
C13_DisabledCacheIsNoOp ==
  ~cfg.cacheEnabled =>
    /\ cache = <<>>
    /\ \A key \in LookupKeys :
         /\ ~getCached(cache, key).hit
         /\ setCache(cache, key, Null) = cache
    /\ clearCache(cache) = cache
    /\ \A p \in Procs : calls[p].op = "getCharity" => calls[p].httpCalls = 1

C13_Witness ==
  \E p \in Procs :
    /\ ~cfg.cacheEnabled /\ cfg.regulator = "CCEW"
    /\ calls[p].op = "getCharity" /\ calls[p].pc = "done"
    /\ calls[p].seen.repeat /\ ~calls[p].seen.cleared
    /\ calls[p].outcome = "returned" /\ calls[p].httpCalls = 1

\* C14: in each of the three clients, a getCharity whose last exchange
\* answered 404, or success with a body that holds no record, returns null
\* and raises nothing.
C14_NotFoundIsNull ==
  \A p \in Procs :
    LET c == calls[p]
    IN /\ c.op = "getCharity" /\ c.pc = "done"
       /\ Len(c.tags) >= 1 /\ IsAbsent(LastTag(c))
       => c.outcome = "returned" /\ c.value = Null /\ c.error = NoError

C14_Witness ==
  \E p \in Procs :
    /\ cfg.regulator = "OSCR"
    /\ calls[p].op = "getCharity" /\ calls[p].pc = "done"
    /\ Len(calls[p].tags) = 1
    /\ calls[p].tags[1].status = 200 /\ calls[p].tags[1].text = "empty"
    /\ calls[p].value = Null

\* C15: in each of the three clients, a getCharity whose last exchange
\* answered 401 or 403 raises AuthenticationError with that status and
\* returns nothing, null included.
C15_AuthFailurePropagates ==
  \A p \in Procs :
    LET c == calls[p]
    IN /\ c.op = "getCharity" /\ c.pc = "done"
       /\ Len(c.tags) >= 1 /\ LastTag(c).status \in {401, 403}
       => /\ c.outcome = "raised"
          /\ c.error.kind = "AuthenticationError"
          /\ c.error.status = LastTag(c).status
          /\ c.value = NoValue

C15_Witness ==
  \E p \in Procs :
    /\ cfg.regulator = "CCEW"
    /\ calls[p].op = "getCharity" /\ calls[p].pc = "done"
    /\ Len(calls[p].tags) >= 1 /\ LastTag(calls[p]).status = 403
    /\ calls[p].outcome = "raised" /\ calls[p].error.kind = "AuthenticationError"

\* C16: in each of the three clients, a getCharity whose last exchange failed
\* other than by 404 (a 429, a 500 left after the retries, a connection
\* failure) raises the error the Request Core classified it as
\* (RateLimitError, ApiError, NetworkError) and does not return null.
C16_OtherErrorsPropagate ==
  \A p \in Procs :
    LET c == calls[p]
    IN /\ c.op = "getCharity" /\ c.pc = "done" /\ Len(c.tags) >= 1
       /\ \/ LastTag(c).name # "none"
          \/ LastTag(c).status >= 400 /\ LastTag(c).status # 404
       => /\ c.outcome = "raised"
          /\ c.error.kind = IF LastTag(c).name # "none" THEN "NetworkError"
                            ELSE KindOf(LastTag(c).status)
          /\ c.value # Null

\* C17: an operation that reaches the upstream and whose last exchange
\* answered 401 or 403 raises AuthenticationError: CCEW getTrustees,
\* getFinancialHistory and getOtherRegulators and the OSCR annual-return
\* lookups never answer with an empty result instead.
C17_AuthAlwaysPropagates ==
  \A p \in Procs :
    LET c == calls[p]
    IN /\ c.op \in ListOps \cup OscrOps /\ c.pc = "done"
       /\ Len(c.tags) >= 1 /\ LastTag(c).status \in {401, 403}
       => c.outcome = "raised" /\ c.error.kind = "AuthenticationError"

\* C18: when getCharityWithFinancials of the OSCR client got a record from
\* its charity lookup and the annual-return lookup then answered without data
\* (an empty list), the call returns that record as it was: not null, no
\* error, nothing merged in.
C18_UnenrichedWhenNoReturns ==
  \A p \in Procs :
    LET c == calls[p]
    IN /\ c.op = "getCharityWithFinancials" /\ c.pc = "done"
       /\ c.first.kind = "charity" /\ c.step \in {"again", "byId", "latest"}
       /\ Len(c.tags) >= 1
       /\ LastTag(c).status = 200 /\ LastTag(c).text = "empty"
       => /\ c.outcome = "returned" /\ c.error = NoError
          /\ c.value = c.first
          /\ c.value.kind = "charity" /\ c.value.fin = 0

C18_Witness ==
  \E p \in Procs :
    /\ calls[p].op = "getCharityWithFinancials" /\ calls[p].pc = "done"
    /\ calls[p].step = "byId" /\ calls[p].first.kind = "charity"
    /\ Len(calls[p].tags) >= 1 /\ LastTag(calls[p]).text = "empty"
    /\ LastTag(calls[p]).status = 200
    /\ calls[p].value = calls[p].first

\* an operation the regulator's API does not offer
NotOffered(c) ==
  \/ cfg.regulator = "OSCR" /\ c.op \in {"searchByName", "getTrustees", "getOtherRegulators"}
  \/ cfg.regulator = "CCNI" /\ c.op = "getOtherRegulators"

NumberOf(id) == SelectSeq(id, LAMBDA ch : ch \in {"0", "1", "2", "3", "4", "5", "6", "7", "8", "9"})

\* the value each regulator's lookup is asked with, and the id of its records
LookupValue(regulator, n) == IF regulator = "OSCR" THEN <<"S", "C">> \o n ELSE n

CanonicalId(regulator, n) ==
  CASE regulator = "OSCR" -> <<"S", "C">> \o n
    [] regulator = "CCNI" -> <<"N", "I", "C">> \o n
    [] OTHER -> n

\* C20: for each client, getCharity with any accepted form of an identifier
\* (bare, with the regulator's prefix in any letter case, for CCEW with
\* non-numeric decoration) asks the upstream with the same value and returns a
\* record with the same canonical id.
C20_SameLookupForEveryForm ==
  \A p \in Procs :
    LET c == calls[p]
    IN c.op = "getCharity" /\ c.id \in ClientIds(cfg.regulator) =>
         /\ c.key = LookupValue(cfg.regulator, NumberOf(c.id))
         /\ c.outcome = "returned" /\ c.value.kind = "charity"
              => c.value.id = CanonicalId(cfg.regulator, NumberOf(c.id))

C20_Witness ==
  \E p \in Procs :
    /\ cfg.regulator = "OSCR"
    /\ calls[p].op = "getCharity" /\ calls[p].pc = "done"
    /\ calls[p].id = <<"s", "C", "1">>
    /\ calls[p].fetches >= 1
    /\ calls[p].value.kind = "charity" /\ calls[p].value.id = <<"S", "C", "1">>

\* C21: constructing CCEWClient or OSCRClient with no apiKey raises in the
\* constructor, before any fetch; constructing CCNIClient never raises, with
\* or without an apiKey.
C21_KeyRequiredAtConstruction ==
  /\ cfg.built # "no" /\ cfg.regulator \in {"CCEW", "OSCR"} /\ cfg.apiKey = "undefined"
       => cfg.built = "raised"
  /\ cfg.built = "raised" => \A p \in Procs : calls[p].fetches = 0 /\ calls[p].pc = "idle"
  /\ cfg.regulator = "CCNI" => cfg.built = "yes"

C21_Witness ==
  /\ cfg.regulator = "OSCR" /\ cfg.apiKey = "undefined" /\ cfg.built = "raised"
  /\ \A p \in Procs : calls[p].fetches = 0

\* a parameter the query string keeps: its value is not undefined, null or ''
Kept(e) == ~(e.value.t \in {"undefined", "null"} \/ (e.value.t = "string" /\ e.value.s = <<>>))

RECURSIVE Fields(_, _)
\* the pieces of s between the occurrences of '&'
Fields(s, piece) ==
  IF s = <<>> THEN <<piece>>
  ELSE IF Head(s) = "&" THEN <<piece>> \o Fields(Tail(s), <<>>)
  ELSE Fields(Tail(s), Append(piece, Head(s)))

\* C22: buildQueryString omits every parameter whose value is undefined, null
\* or the empty string, keeps every other parameter (0 and false included) in
\* the order given, starts a non-empty result with '?', and returns the empty
\* string when no parameter is kept.
C22_QueryStringKeepsDefined ==
  eval.fn = "buildQueryString" /\ eval.done =>
    LET kept == SelectSeq(eval.arg, Kept)
    IN /\ kept = <<>> => eval.out = <<>>
       /\ kept # <<>> =>
            /\ eval.out # <<>>
            /\ Head(eval.out) = "?"
            /\ Fields(Tail(eval.out), <<>>) =
                 [i \in 1..Len(kept) |->
                    kept[i].key \o <<"=">> \o FormEncode(String(kept[i].value))]

C22_Witness ==
  /\ eval.fn = "buildQueryString" /\ eval.done
  /\ Len(eval.arg) = 3
  /\ eval.arg[1] = [key |-> <<"f", "l", "a", "g">>, value |-> Bool(FALSE)]
  /\ eval.arg[2].value = Undefined
  /\ eval.arg[3] = [key |-> <<"p", "a", "g", "e">>, value |-> Number(0)]
  /\ eval.out = <<"?", "f", "l", "a", "g", "=", "f", "a", "l", "s", "e", "&",
                  "p", "a", "g", "e", "=", "0">>

\* C23: in every record a client returns, id is the canonical identifier of
\* its registry (bare for CCEW, 'NIC' + number for CCNI, 'SC' + number for
\* OSCR) and registrationNumber is the bare number, without any prefix.
C23_IdPrefixedNumberBare ==
  \A p \in Procs :
    LET c == calls[p]
    IN c.op = "getCharity" /\ c.outcome = "returned" /\ c.value.kind = "charity" =>
         /\ c.value.id = CanonicalId(cfg.regulator, NumberOf(c.id))
         /\ c.value.reg = NumberOf(c.id)

\* the least number of pages of pageSize that hold total items
PagesFor(total, pageSize) == CHOOSE n \in 0..total : n * pageSize >= total /\ (n = 0 \/ (n - 1) * pageSize < total)

Searched == eval.fn = "transformSearchResponse" /\ eval.done

\* C24 as stated: every SearchResult of a search transform of any client has
\* totalPages = ceil(total / pageSize) whenever pageSize > 0, for every page
\* an upstream answers with.
C24_TotalPagesConsistent ==
  Searched /\ eval.out.pageSize > 0 =>
    eval.out.totalPages = PagesFor(eval.out.total, eval.out.pageSize)

\* C24 (amended): the SearchResult of CCEW and of OSCR has totalPages =
\* ceil(total / pageSize) for every page the upstream answers with (CCEW
\* computes totalPages, OSCR derives total from totalPages); the SearchResult
\* of CCNI copies totalItems, pageSize and totalPages from the upstream and has
\* totalPages = ceil(total / pageSize) exactly when the upstream's figures do.
C24_TotalPagesComputedOrCopied ==
  Searched /\ eval.out.pageSize > 0 =>
    LET raw == eval.arg.raw
        consistent == eval.out.totalPages = PagesFor(eval.out.total, eval.out.pageSize)
    IN IF eval.arg.regulator = "CCNI"
       THEN /\ eval.out.total = raw.total /\ eval.out.pageSize = raw.pageSize
            /\ eval.out.totalPages = raw.totalPages
            /\ consistent <=> raw.totalPages = PagesFor(raw.total, raw.pageSize)
       ELSE consistent

\* the last, shorter page of a CCEW search: three matches in pages of two
C24_Witness ==
  /\ Searched /\ eval.arg.regulator = "CCEW"
  /\ eval.arg.raw.total = 3 /\ eval.arg.raw.pageSize = 2 /\ eval.arg.raw.page = 2
  /\ eval.arg.raw.length = 1
  /\ eval.out.totalPages = 2

\* C25: a raw status string that is not in the regulator's status dictionary
\* is normalized to ACTIVE, and for every status string the result is one of
\* the five values of CharityStatus.
C25_UnknownStatusIsActive ==
  eval.fn = "mapStatus" /\ eval.done =>
    /\ eval.arg.status \notin DOMAIN statusMap(eval.arg.regulator) => eval.out = "ACTIVE"
    /\ eval.out \in CharityStatus

Taxonomy ==
  {"CharityNotFoundError", "RateLimitError", "AuthenticationError", "NetworkError", "ApiError"}

\* C26: every failure a client operation raises to its caller is one of the
\* five kinds of the taxonomy, whatever the upstream does, a success answer
\* with a malformed or non-JSON body included.
C26_OnlyTaxonomyRaised ==
  \A p \in Procs :
    calls[p].outcome = "raised" => calls[p].error.kind \in Taxonomy

\* C27: a getCharity started while another getCharity for the same cache key
\* is in flight (the key not being in the cache) is not coalesced with it:
\* each of the two performs its own exchange, one fetch each without retries,
\* and each completes with the result of its own exchange.
C27_OverlapNotCoalesced ==
  \A p \in Procs :
    LET c == calls[p]
    IN c.op = "getCharity" /\ c.over =>
         /\ c.pc \in {"inflight", "done"}
         /\ c.fetches = 1
         /\ \A q \in Procs \ {p} :
              calls[q].op = "getCharity" /\ calls[q].key = c.key /\ calls[q].pc = "inflight"
                => calls[q].fetches = 1
         /\ c.pc = "done" =>
              /\ c.outcome = "returned"
              /\ Len(c.tags) = 1
              /\ c.tags[1].status = 200 =>
                   c.value.kind = "charity" /\ c.value.ver = c.http.resp.data.ver
              /\ c.tags[1].status = 404 => c.value = Null

\* both lookups have completed, each with the record its own exchange served
C27_Witness ==
  /\ calls[1].op = "getCharity" /\ calls[2].op = "getCharity"
  /\ calls[1].key = calls[2].key
  /\ calls[2].over
  /\ calls[1].pc = "done" /\ calls[2].pc = "done"
  /\ calls[1].fetches = 1 /\ calls[2].fetches = 1
  /\ calls[1].value.kind = "charity" /\ calls[2].value.kind = "charity"
  /\ calls[1].value.ver = 2 /\ calls[2].value.ver = 1

\* the keys the cache holds, as cache keys know them
CachedKeys == {cache[i].key[3] : i \in 1..Len(cache)}

\* the n keys used last
LastUsed(n) == {prev.uses[i] : i \in (Len(prev.uses) - n + 1)..Len(prev.uses)}

\* C28: after any sequence of lookups the cache holds at most maxSize entries
\* (100 unless configured), and what a write beyond the capacity evicts is the
\* entry least recently used, a read and a write both being a use: the cache
\* holds exactly the min(maxSize, keys used) keys used last.
C28_CapacityBoundedLru ==
  /\ Len(cache) <= cfg.maxSize
  /\ Cardinality(CachedKeys) = Len(cache)
  /\ CachedKeys = LastUsed(IF Len(prev.uses) < cfg.maxSize THEN Len(prev.uses) ELSE cfg.maxSize)

\* the cache is full and a key used before has been evicted, the key written
\* before it kept because it was read since
C28_Witness ==
  /\ cfg.maxSize = 2 /\ Len(cache) = 2
  /\ prev.uses = <<<<"2">>, <<"1">>, <<"3">>>>
  /\ CachedKeys = {<<"1">>, <<"3">>}
  /\ calls[1].pc = "done" /\ calls[1].key = <<"3">> /\ calls[1].fetches = 1

\* C29: a getCharity for a key whose entry was stored more than the
\* time-to-live ago is not served from the cache, however often the entry was
\* read in between: it invokes the transport.
C29_ExpiresAfterTtl ==
  \A p \in Procs :
    LET c == calls[p]
    IN /\ c.op = "getCharity" /\ cfg.cacheEnabled
       /\ c.seen.repeat /\ ~c.seen.cleared /\ ~c.seen.fresh
       => c.fetches >= 1

\* a lookup went to the upstream although the entry, now older than the
\* time-to-live, had been read while it was fresh
C29_Witness ==
  /\ cfg.cacheEnabled
  /\ prev.valid /\ prev.read /\ ~prev.cleared /\ prev.age > TtlTicks
  /\ calls[1].op = "getCharity" /\ calls[1].key = prev.key
  /\ calls[1].seen.repeat /\ ~calls[1].seen.fresh
  /\ calls[1].pc = "inflight" /\ calls[1].fetches = 1

\* C30: each client instance owns its cache: a call or a clearCache of one
\* instance leaves the cache of the other instance as it was, also when both
\* are of the same regulator and look up the same identifier.
C30_CachesNotShared ==
  [][/\ calls'[PeerSlot] # calls[PeerSlot] => cache' = cache
     /\ calls'[1] # calls[1] => peer' = peer
     /\ cache' # cache => peer' = peer
     /\ peer' # peer => cache' = cache]_vars

\* both instances looked up the same number; the first then cleared its cache
\* and the peer's cache still holds the record the peer was served
C30_Witness ==
  /\ cfg.cacheEnabled
  /\ calls[1].pc = "done" /\ calls[1].value.kind = "charity" /\ calls[1].value.ver = 1
  /\ calls[PeerSlot].pc = "done" /\ calls[PeerSlot].key = calls[1].key
  /\ calls[PeerSlot].fetches = 1 /\ calls[PeerSlot].value.ver = 2
  /\ cache = <<>>
  /\ Len(peer) = 1 /\ peer[1].key[3] = calls[1].key /\ peer[1].val.ver = 2

\* C31: getTrustees, getFinancialHistory and getOtherRegulators of the CCEW
\* client never raise: when the request failed (a failure status at the last
\* attempt, a connection failure) or the success body holds no list, they
\* return an empty list.
C31_ListOpsNeverRaise ==
  \A p \in Procs :
    LET c == calls[p]
    IN c.op \in ListOps /\ c.pc = "done" /\ Len(c.tags) >= 1 =>
         /\ c.outcome = "returned" /\ c.error = NoError
         /\ (\/ LastTag(c).name # "none"
             \/ LastTag(c).status # 200
             \/ LastTag(c).text # "entity")
              => c.value = EmptyList

C31_Witness ==
  \E p \in Procs :
    /\ calls[p].op = "getTrustees" /\ calls[p].pc = "done"
    /\ calls[p].maxRetries >= 1 /\ calls[p].fetches = 1 + calls[p].maxRetries
    /\ \A i \in 1..Len(calls[p].tags) : calls[p].tags[i].status = 500
    /\ calls[p].outcome = "returned" /\ calls[p].value = EmptyList

\* C32: the cache holds null for an identifier only after a conclusive
\* not-found: when the last exchange of a getCharity was a transient failure
\* (a 5xx or 429 left after the retries, a connection failure), the call
\* leaves no null in the cache under its key.
C32_NullCachedOnlyWhenAbsent ==
  \A p \in Procs :
    LET c == calls[p]
        got == getCached(cache, getCacheKey(cfg.regulator, "getCharity", c.key))
    IN /\ c.op = "getCharity" /\ c.pc = "done" /\ Len(c.tags) >= 1
       /\ \/ LastTag(c).name # "none"
          \/ LastTag(c).status >= 500
          \/ LastTag(c).status = 429
       => ~(got.hit /\ got.val = Null)

\* C33: an attempt that got no answer within the timeout is aborted, and the
\* abort counts as a retryable failure: while attempts remain the call sleeps
\* and tries again, and at the last attempt the call raises NetworkError.
C33_TimeoutIsRetryable ==
  \A p \in Procs :
    LET c == calls[p]
    IN /\ (c.pc = "inflight" => c.waited <= TimeoutTicks)
       /\ \A i \in 1..Len(c.tags) :
            c.op = "httpRequest" /\ c.tags[i].name = "AbortError" =>
              IF i <= c.maxRetries
              THEN \/ i < Len(c.tags)
                   \/ c.pc = "sleep" /\ Len(c.delays) = i
                   \/ c.pc = "inflight" /\ c.fetches = i + 1
              ELSE /\ i = Len(c.tags) /\ c.pc = "done"
                   /\ c.outcome = "raised" /\ c.error.kind = "NetworkError"
                   /\ c.error.cause.name = "AbortError"

C33_Witness ==
  \E p \in Procs :
    /\ calls[p].op = "httpRequest" /\ calls[p].pc = "done"
    /\ calls[p].maxRetries >= 1 /\ Len(calls[p].tags) = 1 + calls[p].maxRetries
    /\ \A i \in 1..Len(calls[p].tags) : calls[p].tags[i].name = "AbortError"
    /\ calls[p].outcome = "raised" /\ calls[p].error.kind = "NetworkError"

\* the maximum delay of a call: the configured one, 10000 ms by default
MaxDelayOf(c) ==
  IF c.retry.maxDelayMs = Unset THEN DefaultMaxDelayMs ELSE c.retry.maxDelayMs.n

\* C34: with exponential backoff the delay slept before retry k (k = 0 for
\* the first) is min(delayMs * 2^k, maxDelayMs): the delays of a call never
\* decrease and none exceeds the maximum delay, whatever the base delay.
C34_BackoffDelays ==
  \A p \in Procs :
    LET c == calls[p]
    IN c.op = "httpRequest" /\ c.retry.exponentialBackoff =>
         \A k \in 0..(Len(c.delays) - 1) :
           LET doubled == c.retry.delayMs * 2^k
           IN /\ c.delays[k + 1] = IF doubled < MaxDelayOf(c) THEN doubled ELSE MaxDelayOf(c)
              /\ c.delays[k + 1] <= MaxDelayOf(c)
              /\ (k >= 1 => c.delays[k] <= c.delays[k + 1])

C34_Witness ==
  \E p \in Procs :
    /\ calls[p].op = "httpRequest" /\ calls[p].retry.exponentialBackoff
    /\ calls[p].retry.maxDelayMs = Num(DefaultMaxDelayMs)
    /\ Len(calls[p].delays) >= 2
    /\ calls[p].delays[1] < calls[p].delays[2]
    /\ calls[p].delays[2] = DefaultMaxDelayMs

C35_NormalizationIdempotent ==
  eval.fn = "normalizeId" /\ eval.done => eval.out.twice = eval.out.once

\* C36: enrichCharityWithAnnualReturn changes nothing but employeeCount,
\* trusteeCount, latestIncome, latestExpenditure and financialYearEnd: every
\* other attribute of its result is the one of the record given, and the
\* record given is left as it was.
C36_EnrichChangesFiveOnly ==
  eval.fn = "enrichCharityWithAnnualReturn" /\ eval.done =>
    /\ DOMAIN eval.out.result = DOMAIN eval.arg.charity
    /\ \A k \in DOMAIN eval.arg.charity \ Enriched :
         eval.out.result[k] = eval.arg.charity[k]
    /\ eval.out.charity = eval.arg.charity

C36_Witness ==
  /\ eval.fn = "enrichCharityWithAnnualReturn" /\ eval.done
  /\ \A k \in Enriched : eval.out.result[k] # eval.arg.charity[k]
  /\ eval.out.result.purposes = <<"p">> /\ eval.arg.charity.purposes = <<"p">>
  /\ eval.out.result.id = eval.arg.charity.id
  /\ eval.out.charity.latestIncome = Num(1)

\* C37: a getCharity whose exchange was in flight when clearCache() ran does
\* not put its result back into the cache: no entry of the cache was stored
\* by such a call, so what the cache serves after a clear was fetched by an
\* exchange that started after it.
C37_NoStoreAcrossClear ==
  \A i \in 1..Len(cache) : cache[i].key[3] \notin prev.stale

\* C39: the step in which a getCharity ends by raising (an authentication
\* failure in any client, any failure but a 404 in CCNI) leaves the cache as
\* it was, and the cache then holds nothing under the key of the call, so
\* that a repeat of the call goes to the transport.
C39_RaiseLeavesCache ==
  [][\A p \in Procs :
       /\ calls[p].op = "getCharity" /\ calls[p].pc = "inflight"
       /\ calls'[p].pc = "done" /\ calls'[p].outcome = "raised"
       => /\ cache' = cache
          /\ ~getCached(cache', getCacheKey(cfg.regulator, "getCharity", calls[p].key)).hit]_vars

C39_Witness ==
  \E p \in Procs :
    /\ cfg.regulator = "CCNI" /\ cfg.cacheEnabled
    /\ calls[p].op = "getCharity" /\ calls[p].pc = "done"
    /\ calls[p].outcome = "raised" /\ calls[p].error.kind = "ApiError"
    /\ Len(cache) = 1 /\ cache[1].key[3] # calls[p].key

\* C40: with caching enabled the cache of getCharity (CCEW, CCNI) is keyed by
\* the normalized identifier: the forms of one identifier share one entry, so
\* a lookup that follows a lookup of the same identifier in another form is
\* served from the cache without a transport call, and what a lookup is
\* served is the record of its own identifier.
C40_KeyedByNormalizedId ==
  cfg.cacheEnabled =>
    /\ \A i, j \in 1..Len(cache) :
         NumberOf(cache[i].key[3]) = NumberOf(cache[j].key[3]) => i = j
    /\ \A p \in Procs :
         LET c == calls[p]
         IN c.op = "getCharity" =>
              /\ c.seen.fresh
                   => /\ c.pc = "done" /\ c.outcome = "returned"
                      /\ c.httpCalls = 0 /\ c.fetches = 0
                      /\ c.value = c.seen.value
              /\ (c.pc = "done" /\ c.fetches = 0 /\ c.value.kind = "charity")
                   => c.value.reg = NumberOf(c.id)

C40_Witness ==
  \E p, q \in Procs :
    /\ cfg.cacheEnabled /\ Len(cache) = 1
    /\ calls[q].op = "getCharity" /\ calls[q].pc = "done" /\ calls[q].fetches = 1
    /\ calls[q].id = <<"1">> /\ calls[q].value.kind = "charity"
    /\ calls[p].op = "getCharity" /\ calls[p].pc = "done" /\ calls[p].fetches = 0
    /\ calls[p].id = <<"n", "I", "C", "1">>
    /\ calls[p].seen.fresh /\ calls[p].value = calls[q].value

====
